---- MODULE Spec2Model ----
(***************************************************************************)
(* vitarx: the reactive notification engine (Listener, Observers, the      *)
(* reactive proxy handler) and the Scope/Effect ownership tree.            *)
(*                                                                         *)
(* Every handler of the TypeScript source is a synchronous call, so each   *)
(* one is an operator from a state record to a state record; an action     *)
(* applies one handler to the current state and commits the result.  The   *)
(* field exc of the record is the completion of the running call: "none",  *)
(* "throw" (an exception is in flight) or "hang" (the call never returns). *)
(*                                                                         *)
(* Callbacks are user code.  A Listener callback either returns or throws. *)
(* Plain functions put in the registry by addNotBatchCallback are the      *)
(* forwarding callbacks the repository itself installs; they return.       *)
(***************************************************************************)
EXTENDS Integers, Sequences, FiniteSets, TLC

\* ------------------------------------------------------------ bounds
MaxLimit == 2      \* largest trigger limit a listener is created with
MaxFired == 3      \* callback invocations of one listener in a behaviour
MaxTimers == 2     \* macrotasks waiting when a call that schedules one is made
MaxBacklog == 5    \* macrotasks waiting when the root is activated again
MaxProxies == 3    \* reactive wrappers made in a behaviour
\* register calls with one live Listener instance
MaxRegs == 2
MaxKids == 3       \* entries of a children list
MaxTrig == 2       \* Observers.trigger calls in a behaviour

\* ------------------------------------------------------------ universe
Root == {"w1"}
ListenerOrder == <<"l1", "l2">>
ListenerIds == {ListenerOrder[i] : i \in 1..Len(ListenerOrder)}
\* the listeners whose callback throws, among those Observers creates
Throwers == {"l2"}
\* the limits Observers.register is called with, per listener
RegLimits == [l \in {"l1", "l2"} |-> IF l = "l1" THEN {0, 1} ELSE {0}]
CallbackIds == {"f1"}
CleanupIds == {"c1", "c2"}
\* the user cleanup callbacks that throw
CleanupThrows == {"c2"}
\* Effect instances (AutoDisposed) and Scope instances; s1 is constructed first
EffectIds == {"e1", "e2"}
ScopeOrder == <<"s1", "s2">>
ScopeIds == {ScopeOrder[i] : i \in 1..Len(ScopeOrder)}
Origins == {"o1", "o2"}
\* d1 carries OBSERVERS_TARGET_SYMBOL and names o1 as its observation target
Redirect == [d \in {"d1"} |-> "o1"]
Objects == Origins \cup DOMAIN Redirect
\* the objects listeners are registered on, and the reactive proxy written to
Watched == {"o1", "d1"}
Written == {"o1"}
Props == {"x", "y"}
ALL_CHANGE_SYMBOL == "ALL"
Keys == Props \cup {ALL_CHANGE_SYMBOL}
\* batched listeners of the flush: q1 is bound to several keys, the callback
\* of rw calls Observers.trigger on another source
FlushIds == {"q1", "q2", "rw"}
Retrigger == [l \in {"rw"} |-> <<"o2", "y">>]
\* the (source, key) pairs each of them is registered with
BindArgs ==
  [l \in FlushIds |->
     IF l = "q1" THEN {"o1"} \X {"x", "y", ALL_CHANGE_SYMBOL}
     ELSE IF l = "q2" THEN {"o2"} \X {"x", ALL_CHANGE_SYMBOL}
     ELSE {"o1"} \X {"x", "y"}]
Vals == {"v1", "v2", "NaN"}
\* the (origin, prop) pairs Observers.trigger is called with: every key of
\* o1, one call through the alias d1, one on o2, which has no listener
\* components: w1 is the root, its description holds w2 inside a fragment, and
\* the description of w2 holds w3 inside nested elements
WidgetOrder == <<"w1", "w2", "w3">>
WidgetIds == {WidgetOrder[i] : i \in 1..Len(WidgetOrder)}
\* a component that is not in the first description of any other: its
\* beforeMount hook returns the element it is to be shown in
Portal == "w4"
Components == WidgetIds \cup {Portal}
\* the first argument of watch: an object, a list of objects, or a getter
Getters == {"getterNoDep", "getterOneDep", "getterTwoProps", "getterTwoSources", "getterObject"}
WatchInputs ==
  {"proxy", "plainObject", "emptyList", "mixedList", "proxyList"} \cup Getters
\* the elements of the lists, and the object a non-list argument is or returns
ItemsOf ==
  [a \in WatchInputs |->
     IF a \in {"proxy", "getterObject"} THEN <<"o1">>
     ELSE IF a = "plainObject" THEN <<"plain">>
     ELSE IF a = "mixedList" THEN <<"o1", "plain">>
     ELSE IF a = "proxyList" THEN <<"o1", "o2">>
     ELSE <<>>]
\* the first argument of watchProps, registerProps: a reactive object, an
\* object that is not reactive, a value that is not an object
SourceInputs == {"o1", "plain", "prim"}
PropsInputs == {<<>>, <<"x">>, <<"x", "y">>}
\* the first argument of registers
SourcesInputs == {<<>>, <<"o1">>, <<"o1", "o2">>}
\* the listeners watch, watchProps, registerProps and registers make, and the
\* arrays the main listener is registered on
ArgPairs == <<[main |-> "am", sub |-> "as"], [main |-> "bm", sub |-> "bs"]>>
ArgListeners == {ArgPairs[i].main : i \in 1..Len(ArgPairs)} \cup {ArgPairs[i].sub : i \in 1..Len(ArgPairs)}
ArgOrigin == "arr"
\* plain functions given to watchDepend
FnIds == {"g0", "g1", "g2", "g3"}
\* plain functions given to watchDepend with options.limit
LimitedFns == {"h1", "h2"}
Watchers == Components \cup FnIds \cup LimitedFns
\* what each watched function reads: per source, in the order of the first
\* read, the properties read
Reads ==
  [k \in Watchers \cup Getters |->
     IF k \in {"w1", "g1", "getterOneDep"} THEN <<[o |-> "o1", props |-> <<"x">>]>>
     ELSE IF k \in {"g2", "getterTwoSources"} \cup LimitedFns
     THEN <<[o |-> "o1", props |-> <<"x">>], [o |-> "o2", props |-> <<"x">>]>>
     ELSE IF k \in {"g3", "getterTwoProps"} THEN <<[o |-> "o1", props |-> <<"x", "y">>]>>
     ELSE <<>>]
\* options.batch of each watchDepend call (undefined counts as true)
WatchBatch == [k \in Watchers |-> k # "g2"]
\* options.limit of each watchDepend call (undefined counts as 0)
WatchLimit == [k \in Watchers |-> IF k = "h1" THEN 1 ELSE IF k = "h2" THEN 2 ELSE 0]
\* what the main listener calls: the callback, or the function itself
WatchTarget == [k \in Watchers |-> IF k = "g1" THEN k ELSE "cb"]
\* the objects watchDepend makes for a watched function: the listener that
\* calls the callback, the listener bound to the properties read, the deps map
MainOf ==
  [k \in Watchers |->
     IF k = "w1" THEN "m1" ELSE IF k = "w2" THEN "m2" ELSE IF k = "w3" THEN "m3"
     ELSE IF k = "w4" THEN "m4"
     ELSE IF k = "h1" THEN "mh1" ELSE IF k = "h2" THEN "mh2"
     ELSE IF k = "g0" THEN "mg0" ELSE IF k = "g1" THEN "mg1" ELSE IF k = "g2" THEN "mg2" ELSE "mg3"]
SubOf ==
  [k \in Watchers |->
     IF k = "w1" THEN "u1" ELSE IF k = "w2" THEN "u2" ELSE IF k = "w3" THEN "u3"
     ELSE IF k = "w4" THEN "u4"
     ELSE IF k = "h1" THEN "uh1" ELSE IF k = "h2" THEN "uh2"
     ELSE IF k = "g0" THEN "ug0" ELSE IF k = "g1" THEN "ug1" ELSE IF k = "g2" THEN "ug2" ELSE "ug3"]
DepsOf ==
  [k \in Watchers |->
     IF k = "w1" THEN "deps1" ELSE IF k = "w2" THEN "deps2" ELSE IF k = "w3" THEN "deps3"
     ELSE IF k = "w4" THEN "deps4"
     ELSE IF k = "h1" THEN "depsh1" ELSE IF k = "h2" THEN "depsh2"
     ELSE IF k = "g0" THEN "depsg0" ELSE IF k = "g1" THEN "depsg1"
     ELSE IF k = "g2" THEN "depsg2" ELSE "depsg3"]
\* the scope of each component instance
ScopeOf ==
  [w \in Components |->
     IF w = "w1" THEN "ws1" ELSE IF w = "w2" THEN "ws2" ELSE IF w = "w3" THEN "ws3" ELSE "ws4"]
WatchListeners == {MainOf[k] : k \in Watchers} \cup {SubOf[k] : k \in Watchers}
\* the debounced function registerProps makes for a listener of several properties
DebouncedOf ==
  [l \in WatchListeners \cup ArgListeners |->
     IF l = "ug3" THEN "dbg3" ELSE IF l = "as" THEN "dbas" ELSE IF l = "am" THEN "dbam"
     ELSE IF l = "bs" THEN "dbbs" ELSE IF l = "bm" THEN "dbbm" ELSE "db"]
\* values that are not objects
Primitives == {"prim"}
WidgetScopes == {ScopeOf[w] : w \in Components}
change == "change"
\* the parent node each component's element is rendered into
ContainerOf ==
  [w \in Components |->
     IF w = "w1" THEN "c1" ELSE IF w = "w2" THEN "c2" ELSE IF w = "w3" THEN "c3" ELSE "c4"]
\* the keys and the values of the props given to patchAttrs
AttrKeys == <<"a", "b", "c">>
AttrKeySet == {AttrKeys[i] : i \in 1..Len(AttrKeys)}
AttrVals == {"v1", "v2", "NaN", "undef"}
\* the nodes of the page
HostNode == [c \in {"c1", "c2"} |-> IF c = "c1" THEN "h1" ELSE "h2"]
\* the element the beforeMount hook of a component returns ("" = none)
TeleportOf == [w \in Components |-> IF w = Portal THEN "tp" ELSE ""]
Containers == {ContainerOf[w] : w \in Components} \cup {"tp", "in2", "in3", "in4"}
ShadowOf ==
  [w \in Components |->
     IF w = "w1" THEN "sh1" ELSE IF w = "w2" THEN "sh2" ELSE IF w = "w3" THEN "sh3" ELSE "sh4"]
\* the descriptions given to update(newChildVNode), by the identity of their root
GivenIds == {"n1", "n2", "n3", "n4"}
\* the parent node the children of an element go into: the element itself,
\* named by the identity of its description; a fragment and an element without
\* an identity of its own pass the parent node they are in on to their children
InsideOf(id) ==
  IF id \in {"t1a", "t1b"} THEN "c2" ELSE IF id \in {"t2a", "t2b"} THEN "c3"
  ELSE IF id = "n2" THEN "in2" ELSE IF id = "n3" THEN "in3" ELSE IF id = "n4" THEN "in4"
  ELSE ""
\* the identities of the descriptions the builds of a component return
TreeA ==
  [w \in Components |->
     IF w = "w1" THEN "t1a" ELSE IF w = "w2" THEN "t2a" ELSE IF w = "w3" THEN "t3a" ELSE "t4a"]
TreeB ==
  [w \in Components |->
     IF w = "w1" THEN "t1b" ELSE IF w = "w2" THEN "t2b" ELSE IF w = "w3" THEN "t3b" ELSE "t4b"]
Fragment == "Fragment"
TriggerArgs == ({"o1"} \X Keys) \cup {<<"d1", "x">>, <<"o2", "x">>}

VARIABLES
  ls,          \* Listener objects: made, limit, count, pause, isDispose, hasCb, throws, onD
  bt,          \* Observers.#listeners: origin -> key -> ordered set of entries
  nb,          \* Observers.#notBatchHandleListeners
  queue,       \* Observers.#triggerQueue: ordered map origin -> ordered set of keys
  isHanding,   \* Observers.#isHanding
  weakMapLock, \* Observers.#weakMapLock
  pending,     \* number of #handleTriggerQueue microtasks scheduled and not yet run
  raw,         \* the targets behind the reactive proxies: origin -> prop -> slot
  fx,          \* Effect and Scope objects: made, isDeprecated, pause, onD, hasSet, effects
  currentScope,\* Scope.#currentScope ("" = undefined)
  stack,       \* the Scope constructors whose main() is running: this, oldScope
  hung,        \* a call never returned (busy wait)
  calls,       \* callback invocations made by the last action, in order
  dcalls,      \* destroy() calls a Scope made on its members in the last action
  pcalls,      \* pause()/unpause() calls a Scope made on its members in the last action
  trigs,       \* Observers.trigger calls since the pending flush was scheduled
  since,       \* entries registered since the pending flush was scheduled
  cancelled,   \* bindings to a queued change removed by destroy() before its flush
  ran,         \* how often each user cleanup callback has run
  given,       \* the listener each user cleanup callback was passed to ("" = none)
  fired,       \* callback invocations of each listener so far
  wasReset,    \* reset() has succeeded on the listener
  ntrig,       \* Observers.trigger calls so far
  rd,          \* WidgetRenderer objects: made, state, pendingUpdate, child, onError, teleport
  dom,         \* the backend nodes in each parent node, in order
  timers,      \* macrotasks scheduled with setTimeout(..., 0), in order
  hooks,       \* lifecycle hooks, builds, patches and state changes of the last action
  attrs,       \* a patchAttrs call: the props of both nodes, the backend calls made
  heap,        \* plain objects, the reactive wrappers made of them, the last call
  childDiff,   \* a patchChildren call: both children lists, the nodes of the parent
  last         \* the last action: op, id, arg, was (id was disposed before), ret, exc

vars == <<ls, bt, nb, queue, isHanding, weakMapLock, pending, raw,
          fx, currentScope, stack, hung, calls, dcalls, pcalls, trigs, since, cancelled, ran, given, fired, wasReset, ntrig,
          rd, dom, timers, hooks, attrs, childDiff, heap, last>>

EmptyMap == [z \in {} |-> <<>>]
NoListener == [made |-> FALSE, limit |-> 0, count |-> 0, pause |-> FALSE,
               isDispose |-> FALSE, hasCb |-> FALSE, throws |-> FALSE, onD |-> <<>>]
\* hasSet: #effects is a Set (not undefined); effects: its members in order
NoEffect == [made |-> FALSE, isDeprecated |-> FALSE, pause |-> FALSE, onD |-> <<>>,
             hasSet |-> FALSE, effects |-> <<>>]

\* a tree description: id is the object's identity, v its attributes and text,
\* w the component instance of a component node ("" = none)
NoVNode == [id |-> "", type |-> "", key |-> "", v |-> "", w |-> "", el |-> "", kids |-> <<>>]
\* alt: the widget's build() reads o1.y as well while o1.x is "v2"
NoRenderer == [made |-> FALSE, state |-> "notRendered", pendingUpdate |-> FALSE,
               child |-> NoVNode, onError |-> "none", teleport |-> "", alt |-> FALSE]

\* the current state as one record, with the per-call fields cleared
Cur ==
  [ls |-> ls, bt |-> bt, nb |-> nb, queue |-> queue, isHanding |-> isHanding,
   weakMapLock |-> weakMapLock, pending |-> pending, raw |-> raw,
   fx |-> fx, currentScope |-> currentScope, stack |-> stack, dcalls |-> <<>>,
   pcalls |-> <<>>,
   calls |-> <<>>, trigs |-> trigs, since |-> since, cancelled |-> cancelled, ran |-> ran, given |-> given, fired |-> fired,
   wasReset |-> wasReset, ntrig |-> ntrig,
   rd |-> rd, dom |-> dom, timers |-> timers, hooks |-> <<>>, built |-> NoVNode,
   attrs |-> attrs, childDiff |-> childDiff, heap |-> heap,
   deps |-> <<>>, handle |-> "", acc |-> <<>>,
   exc |-> "none", ret |-> TRUE, ph |-> "direct", arg |-> ""]

Commit(st, op, id) ==
  /\ ls' = st.ls
  /\ bt' = st.bt
  /\ nb' = st.nb
  /\ queue' = st.queue
  /\ isHanding' = st.isHanding
  /\ weakMapLock' = st.weakMapLock
  /\ pending' = st.pending
  /\ raw' = st.raw
  /\ fx' = st.fx
  /\ currentScope' = st.currentScope
  /\ stack' = st.stack
  /\ dcalls' = st.dcalls
  /\ pcalls' = st.pcalls
  /\ hung' = (st.exc = "hang")
  /\ calls' = st.calls
  /\ trigs' = st.trigs
  /\ since' = st.since
  /\ cancelled' = st.cancelled
  /\ ran' = st.ran
  /\ given' = st.given
  /\ fired' = st.fired
  /\ wasReset' = st.wasReset
  /\ ntrig' = st.ntrig
  /\ rd' = st.rd
  /\ dom' = st.dom
  /\ timers' = st.timers
  /\ hooks' = st.hooks
  /\ attrs' = st.attrs
  /\ childDiff' = st.childDiff
  /\ heap' = st.heap
  /\ last' = [op |-> op, id |-> id, arg |-> st.arg,
              was |-> \/ id \in ListenerIds /\ ls[id].isDispose
                      \/ id \in DOMAIN fx /\ fx[id].isDeprecated,
              ret |-> st.ret, exc |-> st.exc]

\* sequencing: the next statement runs only when the previous one completed
Then(st, F(_)) == IF st.exc # "none" THEN st ELSE F(st)
\* try { ... } catch (e) { }: a thrown exception ends here, a hang does not
Caught(st) == IF st.exc = "throw" THEN [st EXCEPT !.exc = "none"] ELSE st

\* ------------------------------------------------------------ registry tables
Tb(st, tb) == IF tb = "bt" THEN st.bt ELSE st.nb
SetTb(st, tb, t) == IF tb = "bt" THEN [st EXCEPT !.bt = t] ELSE [st EXCEPT !.nb = t]
Lookup(t, o, k) == IF o \in DOMAIN t /\ k \in DOMAIN t[o] THEN t[o][k] ELSE <<>>
Put(f, k, v) == [z \in DOMAIN f \cup {k} |-> IF z = k THEN v ELSE f[z]]
Drop(f, k) == [z \in DOMAIN f \ {k} |-> f[z]]
InSeq(e, s) == \E i \in 1..Len(s) : s[i] = e
Without(s, e) == SelectSeq(s, LAMBDA z : z # e)
SetAdd(s, e) == IF InSeq(e, s) THEN s ELSE Append(s, e)

GetObserveTarget(obj) == IF obj \in DOMAIN Redirect THEN Redirect[obj] ELSE obj

LockWeakMap(st, o) ==
  IF o \in st.weakMapLock THEN [st EXCEPT !.exc = "hang"]
  ELSE [st EXCEPT !.weakMapLock = @ \cup {o}]
UnLock(st, o) == [st EXCEPT !.weakMapLock = @ \ {o}]

\* variant: the set of the property is dropped with the entry
RemoveListener_DropsSet(st, tb, proxy, prop, e) ==
  LET o == GetObserveTarget(proxy) IN
  Then(LockWeakMap(st, o), LAMBDA s1 :
    LET t == Tb(s1, tb)
        s2 == IF o \in DOMAIN t /\ prop \in DOMAIN t[o]
              THEN LET m1 == Drop(t[o], prop)
                       t1 == IF DOMAIN m1 = {} THEN Drop(t, o) ELSE Put(t, o, m1)
                   IN SetTb(s1, tb, t1)
              ELSE s1
    IN UnLock(s2, o))

\* variant: the entry is deleted and the emptied collections are kept
RemoveListener_NoPrune(st, tb, proxy, prop, e) ==
  LET o == GetObserveTarget(proxy) IN
  Then(LockWeakMap(st, o), LAMBDA s1 :
    LET t == Tb(s1, tb)
        s2 == IF o \in DOMAIN t /\ prop \in DOMAIN t[o]
              THEN SetTb(s1, tb, Put(t, o, Put(t[o], prop, Without(t[o][prop], e))))
              ELSE s1
    IN UnLock(s2, o))

RemoveListener(st, tb, proxy, prop, e) ==
  LET o == GetObserveTarget(proxy) IN
  Then(LockWeakMap(st, o), LAMBDA s1 :
    LET t == Tb(s1, tb)
        s2 == IF o \in DOMAIN t /\ prop \in DOMAIN t[o]
              THEN LET set == Without(t[o][prop], e)
                       m1 == IF Len(set) = 0 THEN Drop(t[o], prop) ELSE Put(t[o], prop, set)
                       t1 == IF DOMAIN m1 = {} THEN Drop(t, o) ELSE Put(t, o, m1)
                   IN SetTb(s1, tb, t1)
              ELSE s1
    IN UnLock(s2, o))

\* ------------------------------------------------------------ Listener
Unreg(tb, o, key) == [k |-> "unreg", tb |-> tb, o |-> o, key |-> key]
UserCleanup(c) == [k |-> "user", tb |-> "", o |-> c, key |-> ""]
\* () => this.#effects?.delete(effect), registered by Scope.add of scope s
ScopeDel(s) == [k |-> "sdel", tb |-> "", o |-> s, key |-> ""]

\* the remover addNotBatchCallback returned, registered by registerProps
UnregCallback(o, f) == [k |-> "uncb", tb |-> "nb", o |-> o, key |-> f]
\* () => subListener.destroy(), registered by watchDepend
ListenerDel(l) == [k |-> "ldel", tb |-> "", o |-> l, key |-> ""]

RECURSIVE ListenerDestroy(_, _)
\* one onDestroyed callback of listener (or effect) l
RunCleanup(st, l, d) ==
  IF d.k = "unreg" THEN RemoveListener(st, d.tb, d.o, d.key, l)
  ELSE IF d.k = "ldel" THEN ListenerDestroy(st, d.o)
  ELSE IF d.k = "uncb" THEN RemoveListener(st, "nb", d.o, ALL_CHANGE_SYMBOL, d.key)
  ELSE IF d.k = "sdel"
  THEN IF st.fx[d.o].hasSet THEN [st EXCEPT !.fx[d.o].effects = Without(@, l)] ELSE st
  ELSE [st EXCEPT !.ran[d.o] = @ + 1,
                  !.exc = IF d.o \in CleanupThrows THEN "throw" ELSE "none"]

RECURSIVE RunCleanups(_, _, _)
RunCleanups(st, l, ds) ==
  IF ds = <<>> \/ st.exc # "none" THEN st
  ELSE RunCleanups(Caught(RunCleanup(st, l, Head(ds))), l, Tail(ds))

\* variant: the cleanup callbacks run without the try/catch
ListenerDestroy_NoCatch(st, l) ==
  IF st.ls[l].isDispose THEN st
  ELSE LET s1 == [st EXCEPT !.ls[l].isDispose = TRUE]
           ds == s1.ls[l].onD
       IN IF ds = <<>> THEN s1
          ELSE Then(RunCleanup(s1, l, ds[1]), LAMBDA s2 :
                 Then(RunCleanups(s2, l, Tail(ds)), LAMBDA s3 :
                   [s3 EXCEPT !.ls[l].onD = <<>>, !.ls[l].hasCb = FALSE]))

ListenerDestroy(st, l) ==
  IF st.ls[l].isDispose THEN st
  ELSE LET s1 == [st EXCEPT !.ls[l].isDispose = TRUE] IN
       IF s1.ls[l].onD = <<>> THEN s1
       ELSE Then(RunCleanups(s1, l, s1.ls[l].onD), LAMBDA s2 :
              [s2 EXCEPT !.ls[l].onD = <<>>, !.ls[l].hasCb = FALSE])

ListenerOnDestroyed(st, l, d) ==
  IF st.ls[l].isDispose THEN RunCleanup(st, l, d)
  ELSE [st EXCEPT !.ls[l].onD = Append(@, d)]

\* the body of the callback a listener was made with
RECURSIVE ListenerBody(_, _)

\* this.#callback.apply(null, params)
Apply(st, l, p, o) ==
  LET s1 == [st EXCEPT !.calls = Append(@, [e |-> l, p |-> p, o |-> o, ph |-> st.ph]),
                       !.fired[l] = @ + 1]
  IN IF st.ls[l].throws THEN [s1 EXCEPT !.exc = "throw"] ELSE ListenerBody(s1, l)

\* variant: the trigger count is never compared with the limit
ListenerTrigger_NoLimit(st, l, p, o) ==
  LET L == st.ls[l] IN
  IF L.isDispose \/ ~L.hasCb THEN [st EXCEPT !.ret = FALSE]
  ELSE IF L.pause THEN [st EXCEPT !.ret = TRUE]
  ELSE Then(Caught(Apply(st, l, p, o)), LAMBDA s1 :
         [s1 EXCEPT !.ls[l].count = @ + 1, !.ret = TRUE])

\* variant: only the callback is tested on entry, not the disposed flag
ListenerTrigger_NoDisposeCheck(st, l, p, o) ==
  LET L == st.ls[l] IN
  IF ~L.hasCb THEN [st EXCEPT !.ret = FALSE]
  ELSE IF L.pause THEN [st EXCEPT !.ret = TRUE]
  ELSE IF L.limit = 0 \/ L.count < L.limit
  THEN Then(Caught(Apply(st, l, p, o)), LAMBDA s1 :
         LET s2 == [s1 EXCEPT !.ls[l].count = @ + 1] IN
         IF L.limit # 0 /\ s2.ls[l].count >= L.limit
         THEN Then(ListenerDestroy(s2, l), LAMBDA s3 : [s3 EXCEPT !.ret = FALSE])
         ELSE [s2 EXCEPT !.ret = TRUE])
  ELSE [st EXCEPT !.ret = FALSE]

\* variant: the pause flag is not tested
ListenerTrigger_PausedFires(st, l, p, o) ==
  LET L == st.ls[l] IN
  IF L.isDispose \/ ~L.hasCb THEN [st EXCEPT !.ret = FALSE]
  ELSE IF L.limit = 0 \/ L.count < L.limit
  THEN Then(Caught(Apply(st, l, p, o)), LAMBDA s1 :
         LET s2 == [s1 EXCEPT !.ls[l].count = @ + 1] IN
         IF L.limit # 0 /\ s2.ls[l].count >= L.limit
         THEN Then(ListenerDestroy(s2, l), LAMBDA s3 : [s3 EXCEPT !.ret = FALSE])
         ELSE [s2 EXCEPT !.ret = TRUE])
  ELSE [st EXCEPT !.ret = FALSE]

\* variant: the callback runs without the try/catch
ListenerTrigger_NoCatch(st, l, p, o) ==
  LET L == st.ls[l] IN
  IF L.isDispose \/ ~L.hasCb THEN [st EXCEPT !.ret = FALSE]
  ELSE IF L.pause THEN [st EXCEPT !.ret = TRUE]
  ELSE IF L.limit = 0 \/ L.count < L.limit
  THEN Then(Apply(st, l, p, o), LAMBDA s1 :
         LET s2 == [s1 EXCEPT !.ls[l].count = @ + 1] IN
         IF L.limit # 0 /\ s2.ls[l].count >= L.limit
         THEN Then(ListenerDestroy(s2, l), LAMBDA s3 : [s3 EXCEPT !.ret = FALSE])
         ELSE [s2 EXCEPT !.ret = TRUE])
  ELSE [st EXCEPT !.ret = FALSE]

ListenerTrigger(st, l, p, o) ==
  LET L == st.ls[l] IN
  IF L.isDispose \/ ~L.hasCb THEN [st EXCEPT !.ret = FALSE]
  ELSE IF L.pause THEN [st EXCEPT !.ret = TRUE]
  ELSE IF L.limit = 0 \/ L.count < L.limit
  THEN Then(Caught(Apply(st, l, p, o)), LAMBDA s1 :
         LET s2 == [s1 EXCEPT !.ls[l].count = @ + 1] IN
         IF L.limit # 0 /\ s2.ls[l].count >= L.limit
         THEN Then(ListenerDestroy(s2, l), LAMBDA s3 : [s3 EXCEPT !.ret = FALSE])
         ELSE [s2 EXCEPT !.ret = TRUE])
  ELSE [st EXCEPT !.ret = FALSE]

ListenerPause(st, l) == [st EXCEPT !.ls[l].pause = TRUE]
ListenerUnpause(st, l) == [st EXCEPT !.ls[l].pause = FALSE]
ListenerReset(st, l) ==
  IF st.ls[l].isDispose THEN [st EXCEPT !.ret = FALSE]
  ELSE [st EXCEPT !.ls[l].count = 0, !.wasReset[l] = TRUE, !.ret = TRUE]

\* new Listener(callback, limit)
NewListener(st, l, limit, throws) ==
  [st EXCEPT !.ls[l] = [NoListener EXCEPT !.made = TRUE, !.limit = limit,
                                          !.hasCb = TRUE, !.throws = throws]]

\* ------------------------------------------------------------ Effect, Scope
\* this.#onDestroyedCallback.forEach(callback => callback())
RECURSIVE RunCallbacks(_, _, _)
RunCallbacks(st, m, ds) ==
  IF ds = <<>> \/ st.exc # "none" THEN st
  ELSE RunCallbacks(RunCleanup(st, m, Head(ds)), m, Tail(ds))

EffectDestroy(st, m) ==
  IF st.fx[m].isDeprecated THEN st
  ELSE LET s1 == [st EXCEPT !.fx[m].isDeprecated = TRUE] IN
       IF s1.fx[m].onD = <<>> THEN s1
       ELSE Then(RunCallbacks(s1, m, s1.fx[m].onD), LAMBDA s2 :
              [s2 EXCEPT !.fx[m].onD = <<>>])

EffectOnDestroyed(st, m, d) ==
  IF st.fx[m].isDeprecated THEN RunCleanup(st, m, d)
  ELSE [st EXCEPT !.fx[m].onD = Append(@, d)]

\* effect.onDestroyed(cb) on a member of either class
MemberOnDestroyed(st, m, d) ==
  IF m \in DOMAIN st.ls THEN ListenerOnDestroyed(st, m, d) ELSE EffectOnDestroyed(st, m, d)

\* get count
ScopeCount(st, s) == IF st.fx[s].hasSet THEN Len(st.fx[s].effects) ELSE 0

\* variant: members are accepted whatever the state of the scope
ScopeAdd_NoCheck(st, s, m) ==
  LET s1 == IF st.fx[s].hasSet THEN [st EXCEPT !.fx[s].effects = SetAdd(@, m)] ELSE st
  IN Then(MemberOnDestroyed(s1, m, ScopeDel(s)), LAMBDA s2 : [s2 EXCEPT !.ret = TRUE])

ScopeAdd(st, s, m) ==
  IF ~st.fx[s].isDeprecated
  THEN LET s1 == IF st.fx[s].hasSet THEN [st EXCEPT !.fx[s].effects = SetAdd(@, m)] ELSE st
       IN Then(MemberOnDestroyed(s1, m, ScopeDel(s)), LAMBDA s2 : [s2 EXCEPT !.ret = TRUE])
  ELSE [st EXCEPT !.ret = FALSE]

\* addEffect(effect): !!getCurrentScope()?.add(effect)
AddEffect(st, m) ==
  IF st.currentScope = "" THEN [st EXCEPT !.ret = FALSE] ELSE ScopeAdd(st, st.currentScope, m)

RECURSIVE ScopeDestroy(_, _), DestroyLoop(_, _, _), MemberDestroy(_, _, _)

\* dispose.destroy() for a member of scope s
MemberDestroy(st, s, m) ==
  LET s1 == [st EXCEPT !.dcalls = Append(@, [by |-> s, m |-> m])] IN
  IF m \in DOMAIN st.ls THEN ListenerDestroy(s1, m)
  ELSE IF m \in ScopeIds THEN ScopeDestroy(s1, m)
  ELSE EffectDestroy(s1, m)

\* this.#effects.forEach(dispose => dispose.destroy()): Set.forEach skips the
\* members deleted before they are reached
DestroyLoop(st, s, seen) ==
  IF st.exc # "none" THEN st
  ELSE LET rest == SelectSeq(st.fx[s].effects, LAMBDA z : z \notin seen) IN
       IF rest = <<>> THEN st
       ELSE DestroyLoop(MemberDestroy(st, s, Head(rest)), s, seen \cup {Head(rest)})

\* variant: the cascade runs whatever the state of the scope; forEach on the
\* released set throws
ScopeDestroy_NoGuard(st, s) ==
  IF ~st.fx[s].hasSet THEN [st EXCEPT !.exc = "throw"]
  ELSE Then(DestroyLoop(st, s, {}), LAMBDA s1 :
         EffectDestroy([s1 EXCEPT !.fx[s].hasSet = FALSE, !.fx[s].effects = <<>>], s))

ScopeDestroy(st, s) ==
  IF ~st.fx[s].isDeprecated /\ st.fx[s].hasSet
  THEN Then(DestroyLoop(st, s, {}), LAMBDA s1 :
         EffectDestroy([s1 EXCEPT !.fx[s].hasSet = FALSE, !.fx[s].effects = <<>>], s))
  ELSE st

\* DisposeEffect.pause / unpause; no onPause or onUnPause callback is registered
EffectPause(st, m) == [st EXCEPT !.fx[m].pause = TRUE]
EffectUnpause(st, m) == [st EXCEPT !.fx[m].pause = FALSE]

RECURSIVE ScopePause(_, _), PauseLoop(_, _, _), MemberPause(_, _, _)
RECURSIVE ScopeUnpause(_, _), UnpauseLoop(_, _, _), MemberUnpause(_, _, _)

\* dispose?.pause?.() for a member of scope s
MemberPause(st, s, m) ==
  LET s1 == [st EXCEPT !.pcalls = Append(@, [by |-> s, m |-> m])] IN
  IF m \in DOMAIN st.ls THEN ListenerPause(s1, m)
  ELSE IF m \in ScopeIds THEN ScopePause(s1, m)
  ELSE EffectPause(s1, m)

\* this.#effects?.forEach(dispose => dispose?.pause?.())
PauseLoop(st, s, seen) ==
  IF st.exc # "none" THEN st
  ELSE LET rest == SelectSeq(st.fx[s].effects, LAMBDA z : z \notin seen) IN
       IF rest = <<>> THEN st
       ELSE PauseLoop(MemberPause(st, s, Head(rest)), s, seen \cup {Head(rest)})

\* variant: only the scope's own flag is set
ScopePause_FlagOnly(st, s) ==
  IF ~st.fx[s].pause THEN EffectPause(st, s) ELSE st

ScopePause(st, s) ==
  IF ~st.fx[s].pause
  THEN Then(PauseLoop(st, s, {}), LAMBDA s1 : EffectPause(s1, s))
  ELSE st

\* dispose?.unpause?.() for a member of scope s
MemberUnpause(st, s, m) ==
  LET s1 == [st EXCEPT !.pcalls = Append(@, [by |-> s, m |-> m])] IN
  IF m \in DOMAIN st.ls THEN ListenerUnpause(s1, m)
  ELSE IF m \in ScopeIds THEN ScopeUnpause(s1, m)
  ELSE EffectUnpause(s1, m)

\* this.#effects?.forEach(dispose => dispose?.unpause?.())
UnpauseLoop(st, s, seen) ==
  IF st.exc # "none" THEN st
  ELSE LET rest == SelectSeq(st.fx[s].effects, LAMBDA z : z \notin seen) IN
       IF rest = <<>> THEN st
       ELSE UnpauseLoop(MemberUnpause(st, s, Head(rest)), s, seen \cup {Head(rest)})

ScopeUnpause(st, s) ==
  IF st.fx[s].pause
  THEN Then(UnpauseLoop(st, s, {}), LAMBDA s1 : EffectUnpause(s1, s))
  ELSE st

\* new Scope(main, toParent) up to the call of main()
ScopeEnter(st, s, toParent) ==
  LET s0 == [st EXCEPT !.fx[s] = [NoEffect EXCEPT !.made = TRUE, !.hasSet = TRUE]]
      oldScope == s0.currentScope
      s1 == IF toParent /\ oldScope # "" THEN ScopeAdd(s0, oldScope, s) ELSE s0
  IN Then(s1, LAMBDA s2 :
       [s2 EXCEPT !.currentScope = s,
                  !.stack = Append(@, [this |-> s, oldScope |-> oldScope])])

\* main() returned: Scope.#currentScope = oldScope
ScopeLeave(st) ==
  [st EXCEPT !.currentScope = st.stack[Len(st.stack)].oldScope,
             !.stack = SubSeq(@, 1, Len(@) - 1)]

\* main() threw: the exception leaves the constructors of the n innermost
\* scopes before a body catches it, or the caller of the outermost does;
\* Scope.#currentScope = oldScope is not reached in any of them
ScopeThrown(st, n) ==
  [st EXCEPT !.stack = SubSeq(@, 1, Len(@) - n), !.exc = "throw"]

\* new AutoDisposed()
NewAutoDisposed(st, e) ==
  AddEffect([st EXCEPT !.fx[e] = [NoEffect EXCEPT !.made = TRUE]], e)

\* ------------------------------------------------------------ Observers
AddListener(st, tb, proxy, prop, e) ==
  LET o == GetObserveTarget(proxy) IN
  Then(LockWeakMap(st, o), LAMBDA s1 :
    LET t == Tb(s1, tb)
        m0 == IF o \in DOMAIN t THEN t[o] ELSE EmptyMap
        set == SetAdd(IF prop \in DOMAIN m0 THEN m0[prop] ELSE <<>>, e)
        s2 == SetTb(s1, tb, Put(t, o, Put(m0, prop, set)))
        s3 == IF e \in DOMAIN st.ls
              THEN ListenerOnDestroyed(s2, e, Unreg(tb, o, prop))
              ELSE s2
    IN Then(s3, LAMBDA s4 : UnLock(s4, o)))

\* #createListener: the table the options select
ListOf(batch) == IF batch THEN "bt" ELSE "nb"

\* ghost: the entry was registered while a flush was pending
Noted(st, e) == IF st.isHanding THEN [st EXCEPT !.since = @ \cup {e}] ELSE st

ObserversRegister(st, origin, l, prop, batch) ==
  AddListener(Noted(st, l), ListOf(batch), origin, prop, l)

AddNotBatchCallback(st, origin, f, prop) ==
  AddListener(Noted(st, f), "nb", origin, prop, f)

\* a plain function in a listener set: listener(p, origin)
CallPlain(st, f, p, o) ==
  [st EXCEPT !.calls = Append(@, [e |-> f, p |-> p, o |-> o, ph |-> st.ph])]

\* for (const listener of listeners): a Set iteration skips entries deleted
\* before they are reached and reaches entries added meanwhile
RECURSIVE TriggerLoop(_, _, _, _, _, _)
TriggerLoop(st, tb, o, key, p, seen) ==
  IF st.exc # "none" THEN st
  ELSE LET rest == SelectSeq(Lookup(Tb(st, tb), o, key), LAMBDA z : z \notin seen) IN
       IF rest = <<>> THEN st
       ELSE LET e == Head(rest)
                s1 == IF e \notin DOMAIN st.ls THEN CallPlain(st, e, p, o)
                      ELSE ListenerTrigger(st, e, p, o)
            IN TriggerLoop(s1, tb, o, key, p, seen \cup {e})

TriggerListeners(st, tb, o, key, p) == TriggerLoop(st, tb, o, key, p, {})

\* variant: the queued properties are a list, not a Set
QueuePush_NoDedupe(q, o, prop) ==
  IF \E i \in 1..Len(q) : q[i].o = o
  THEN [i \in 1..Len(q) |-> IF q[i].o = o THEN [q[i] EXCEPT !.props = Append(@, prop)] ELSE q[i]]
  ELSE Append(q, [o |-> o, props |-> <<prop>>])

\* variant: a source triggered for the first time goes to the front
QueuePush_Front(q, o, prop) ==
  IF \E i \in 1..Len(q) : q[i].o = o
  THEN [i \in 1..Len(q) |-> IF q[i].o = o THEN [q[i] EXCEPT !.props = SetAdd(@, prop)] ELSE q[i]]
  ELSE <<[o |-> o, props |-> <<prop>>]>> \o q

QueuePush(q, o, prop) ==
  IF \E i \in 1..Len(q) : q[i].o = o
  THEN [i \in 1..Len(q) |-> IF q[i].o = o THEN [q[i] EXCEPT !.props = SetAdd(@, prop)] ELSE q[i]]
  ELSE Append(q, [o |-> o, props |-> <<prop>>])

RECURSIVE TriggerEach(_, _, _)
TriggerEach(st, o, props) ==
  IF props = <<>> \/ st.exc # "none" THEN st
  ELSE LET prop == Head(props)
           s1 == TriggerListeners(st, "nb", o, prop, <<prop>>)
       IN TriggerEach(Then(s1, LAMBDA s : [s EXCEPT !.queue = QueuePush(@, o, prop)]),
                      o, Tail(props))

\* variant: the unbatched listeners of the all-changes key are not dispatched
ObserversTrigger_NoAllKey(st, origin, props) ==
  LET s0 == [st EXCEPT !.ph = "sync", !.ntrig = @ + 1,
                       !.trigs = Append(@, [o |-> GetObserveTarget(origin), props |-> props])]
      s1 == IF ~s0.isHanding
            THEN [s0 EXCEPT !.queue = <<>>, !.isHanding = TRUE, !.pending = @ + 1]
            ELSE s0
      o == GetObserveTarget(origin)
  IN IF o \in DOMAIN s1.bt \/ o \in DOMAIN s1.nb
     THEN TriggerEach(s1, o, props)
     ELSE s1

\* variant: every call schedules a flush
ObserversTrigger_AlwaysSchedules(st, origin, props) ==
  LET s0 == [st EXCEPT !.ph = "sync", !.ntrig = @ + 1,
                       !.trigs = Append(@, [o |-> GetObserveTarget(origin), props |-> props])]
      s1 == [s0 EXCEPT !.queue = IF s0.isHanding THEN @ ELSE <<>>, !.isHanding = TRUE,
                       !.pending = @ + 1]
      o == GetObserveTarget(origin)
  IN IF o \in DOMAIN s1.bt \/ o \in DOMAIN s1.nb
     THEN Then(TriggerEach(s1, o, props), LAMBDA s2 :
            TriggerListeners(s2, "nb", o, ALL_CHANGE_SYMBOL, props))
     ELSE s1

ObserversTrigger(st, origin, props) ==
  LET s0 == [st EXCEPT !.ph = "sync", !.ntrig = @ + 1,
                       !.trigs = Append(@, [o |-> GetObserveTarget(origin), props |-> props])]
      s1 == IF ~s0.isHanding
            THEN [s0 EXCEPT !.queue = <<>>, !.isHanding = TRUE, !.pending = @ + 1]
            ELSE s0
      o == GetObserveTarget(origin)
  IN IF o \in DOMAIN s1.bt \/ o \in DOMAIN s1.nb
     THEN Then(TriggerEach(s1, o, props), LAMBDA s2 :
            TriggerListeners(s2, "nb", o, ALL_CHANGE_SYMBOL, props))
     ELSE s1

RECURSIVE PropsLoop(_, _, _)
PropsLoop(st, o, props) ==
  IF props = <<>> \/ st.exc # "none" THEN st
  ELSE PropsLoop(TriggerListeners(st, "bt", o, Head(props), <<Head(props)>>), o, Tail(props))

TriggerProps(st, o, props) ==
  Then(PropsLoop(st, o, props), LAMBDA s1 :
    IF ~InSeq(ALL_CHANGE_SYMBOL, props)
    THEN TriggerListeners(s1, "bt", o, ALL_CHANGE_SYMBOL, props)
    ELSE s1)

RECURSIVE QueueLoop(_, _)
QueueLoop(st, q) ==
  IF q = <<>> \/ st.exc # "none" THEN st
  ELSE QueueLoop(TriggerProps(st, Head(q).o, Head(q).props), Tail(q))

\* variant: the flag is cleared once the listeners have run
HandleTriggerQueue_FlagAfter(st) ==
  LET s1 == [st EXCEPT !.pending = @ - 1, !.ph = "flush", !.trigs = <<>>, !.since = {}]
  IN Then(QueueLoop(s1, s1.queue), LAMBDA s2 : [s2 EXCEPT !.isHanding = FALSE])

HandleTriggerQueue(st) ==
  LET s1 == [st EXCEPT !.isHanding = FALSE, !.pending = @ - 1, !.ph = "flush", !.trigs = <<>>,
                       !.since = {}]
  IN QueueLoop(s1, s1.queue)

\* ------------------------------------------------------------ reactive proxy
Absent == [has |-> FALSE, ref |-> FALSE, v |-> "undef"]
Plain(v) == [has |-> TRUE, ref |-> FALSE, v |-> v]
RefCell(v) == [has |-> TRUE, ref |-> TRUE, v |-> v]
\* a !== b is ~StrictEq(a, b); NaN is not === to itself
StrictEq(a, b) == a = b /\ a # "NaN"
\* what reading the property through the proxy gives
Held(slot) == slot.v

ProxyTrigger(st, o, prop) == ObserversTrigger(st, o, <<prop>>)

\* variant: the new value is not compared with the old one
ReactiveSet_AlwaysTriggers(st, o, prop, newValue) ==
  LET old == st.raw[o][prop] IN
  IF old.ref
  THEN ProxyTrigger([st EXCEPT !.raw[o][prop].v = newValue], o, prop)
  ELSE ProxyTrigger([st EXCEPT !.raw[o][prop] = Plain(newValue)], o, prop)

ReactiveSet(st, o, prop, newValue) ==
  LET old == st.raw[o][prop] IN
  IF old.ref
  THEN IF ~StrictEq(old.v, newValue)
       THEN ProxyTrigger([st EXCEPT !.raw[o][prop].v = newValue], o, prop)
       ELSE st
  ELSE IF ~StrictEq(old.v, newValue)
       THEN ProxyTrigger([st EXCEPT !.raw[o][prop] = Plain(newValue)], o, prop)
       ELSE st

\* ReactiveHandler.deleteProperty(target, prop): Reflect.deleteProperty
\* returns true for a property of a plain object and for a property the
\* object does not have
ReactiveDelete(st, o, prop) == ProxyTrigger([st EXCEPT !.raw[o][prop] = Absent], o, prop)

\* ------------------------------------------------------------ reactive wrappers
\* values: a primitive, the plain objects t1 and t2, the n-th wrapper made
Prim == <<"v", 1>>
Obj(i) == <<"t", i>>
Wrap(n) == <<"p", n>>
NoValue == <<"u", 0>>
ObjIds == {1, 2}
\* isProxy(value); isObject(value) holds of a plain object and of a wrapper
IsWrap(v) == v[1] = "p"
IsPlainObj(v) == v[1] = "t"
\* obj: the properties of the plain objects; n: the wrappers made; tgt, deep,
\* up: the target of each wrapper, its deep flag and the (wrapper, property)
\* its trigger notifies; reads: the get traps that ran, with the value
\* Reflect.get gave and whether the value was wrapped there; deps: the
\* record of the active collection; trig: the Observers.trigger calls; call,
\* ret: the last call and what it returned; over: more wrappers asked for
\* than MaxProxies
NoHeap == [obj |-> [i \in ObjIds |-> [q \in Props |-> Prim]], n |-> 0,
           tgt |-> <<>>, deep |-> <<>>, up |-> <<>>, reads |-> <<>>, deps |-> {},
           trig |-> <<>>,
           call |-> <<>>, ret |-> NoValue, over |-> FALSE]
HeapInputs ==
  {[NoHeap EXCEPT !.obj[1] = f] : f \in [Props -> {Prim, Obj(2)}]}

\* createReactive(target, deep, trigger): every call makes a new Proxy
CreateReactive(h, target, deep, up) ==
  IF h.n >= MaxProxies THEN [h EXCEPT !.over = TRUE]
  ELSE [h EXCEPT !.n = @ + 1, !.tgt = Append(@, target), !.deep = Append(@, deep),
                 !.up = Append(@, up), !.ret = Wrap(h.n + 1)]

\* reactive(target, deep)
ReactiveCall(h, target, deep) == CreateReactive(h, target, deep, <<>>)

\* unReactive(obj): obj[GET_RAW_TARGET_SYMBOL] of a wrapper is its target
UnReactive(h, v) == IF IsWrap(v) THEN h.tgt[v[2]] ELSE v

\* the trigger closure of a wrapper: Observers.trigger(proxy, prop), then the
\* trigger it was made with
RECURSIVE HeapTrigger(_, _, _)
HeapTrigger(h, p, prop) ==
  LET h1 == [h EXCEPT !.trig = Append(@, <<p, prop>>)]
  IN IF h.up[p] = <<>> THEN h1 ELSE HeapTrigger(h1, h.up[p][1], h.up[p][2])

RECURSIVE GetTrap(_, _, _), SetTrap(_, _, _, _)
\* Reflect.get and Reflect.set on a target that is itself a wrapper run its traps
ReflectGet(h, target, prop) ==
  IF IsWrap(target) THEN GetTrap(h, target[2], prop)
  ELSE [h EXCEPT !.ret = h.obj[target[2]][prop]]
ReflectSet(h, target, prop, v) ==
  IF IsWrap(target) THEN SetTrap(h, target[2], prop, v)
  ELSE [h EXCEPT !.obj[target[2]][prop] = v]

\* ReactiveHandler.set(target, prop, newValue, receiver)
SetTrap(h, p, prop, v) ==
  LET h1 == ReflectGet(h, h.tgt[p], prop)
  IN IF h1.ret # v THEN HeapTrigger(ReflectSet(h1, h.tgt[p], prop, v), p, prop) ELSE h1

ReadLog(h, p, prop, value, lazy) ==
  [h EXCEPT !.reads = Append(@, [p |-> p, prop |-> prop, value |-> value, lazy |-> lazy])]
\* Depend.track(proxy, prop): adds prop to the set the record has for proxy
DependTrack(h, p, prop) == [h EXCEPT !.deps = @ \cup {<<p, prop>>}]

\* variant: every read that does not wrap is tracked
GetTrap_TrackWrapped(h, p, prop) ==
  LET h1 == ReflectGet(h, h.tgt[p], prop)
      value == h1.ret
  IN IF h.deep[p] /\ IsPlainObj(value)
     THEN LET h2 == CreateReactive(h1, value, TRUE, <<p, prop>>)
          IN IF h2.over THEN h2
             ELSE [ReadLog(ReflectSet(h2, h.tgt[p], prop, h2.ret), p, prop, value, TRUE)
                     EXCEPT !.ret = h2.ret]
     ELSE [DependTrack(ReadLog(h1, p, prop, value, FALSE), p, prop) EXCEPT !.ret = value]

\* ReactiveHandler.get(target, prop, receiver) while a collection is active
GetTrap(h, p, prop) ==
  LET h1 == ReflectGet(h, h.tgt[p], prop)
      value == h1.ret
  IN IF h.deep[p] /\ IsPlainObj(value)
     THEN LET h2 == CreateReactive(h1, value, TRUE, <<p, prop>>)
          IN IF h2.over THEN h2
             ELSE [ReadLog(ReflectSet(h2, h.tgt[p], prop, h2.ret), p, prop, value, TRUE)
                     EXCEPT !.ret = h2.ret]
     ELSE IF ~IsWrap(value)
     THEN [DependTrack(ReadLog(h1, p, prop, value, FALSE), p, prop) EXCEPT !.ret = value]
     ELSE [ReadLog(h1, p, prop, value, FALSE) EXCEPT !.ret = value]

\* Depend.collect(fn): fn reads the properties in order
RECURSIVE CollectReads(_, _)
CollectReads(h, reads) ==
  IF reads = <<>> \/ h.over THEN h
  ELSE CollectReads(GetTrap(h, Head(reads)[1], Head(reads)[2]), Tail(reads))

\* ------------------------------------------------------------ tree descriptions
El(id, type, v, kids) ==
  [id |-> id, type |-> type, key |-> "", v |-> v, w |-> "", el |-> "", kids |-> kids]
\* a component node: its instance is made when the node is rendered
Inst(w) == [id |-> "", type |-> w, key |-> "", v |-> "", w |-> w, el |-> "", kids |-> <<>>]
FreshId(w, old) == IF old = TreeA[w] THEN TreeB[w] ELSE TreeA[w]

\* widget.build() of each component: v is the text the description shows
WidgetBuild(w, id, v) ==
  IF w = "w1" THEN El(id, "div", v, <<El("", Fragment, "", <<Inst("w2")>>)>>)
  ELSE IF w = "w2" THEN El(id, "p", v, <<El("", "span", "", <<Inst("w3")>>)>>)
  ELSE IF w = "w3" THEN El(id, "b", v, <<>>)
  ELSE El(id, "aside", v, <<>>)
\* the description the error hook of w1 returns when it returns one
ErrTree(id) == El(id, "div", "error", <<El("", Fragment, "", <<Inst("w2")>>)>>)

\* the descriptions given to update(newChildVNode): another type, the type and
\* key of the first description of w1 with an element or with the component
\* w4 where w2 is, and that type with another key
Given(n) ==
  IF n = "n1" THEN El("n1", "span", "v1", <<>>)
  ELSE IF n = "n2"
  THEN El("n2", "div", "v1", <<El("", Fragment, "", <<El("n2k", "i", "", <<>>)>>)>>)
  ELSE IF n = "n3" THEN El("n3", "div", "v1", <<El("", Fragment, "", <<Inst(Portal)>>)>>)
  ELSE [El("n4", "div", "v1", <<El("", Fragment, "", <<El("n4k", "i", "", <<>>)>>)>>)
          EXCEPT !.key = "k"]

\* ------------------------------------------------------------ patchAttrs
\* a props object: its own keys in Object.keys order, each with its value
PropsOf(f) ==
  SelectSeq([i \in 1..Len(AttrKeys) |-> [k |-> AttrKeys[i], v |-> f[AttrKeys[i]]]],
            LAMBDA e : e.v # "absent")
KeysOf(p) == [i \in 1..Len(p) |-> p[i].k]
HasKey(p, k) == \E i \in 1..Len(p) : p[i].k = k
\* p[k]: undefined for a key the object does not have
PropGet(p, k) == IF HasKey(p, k) THEN p[CHOOSE i \in 1..Len(p) : p[i].k = k].v ELSE "undef"
\* p[k] = v
PropSet(p, k, v) ==
  IF HasKey(p, k) THEN [i \in 1..Len(p) |-> IF p[i].k = k THEN [k |-> k, v |-> v] ELSE p[i]]
  ELSE Append(p, [k |-> k, v |-> v])
\* delete p[k]
PropDelete(p, k) == SelectSeq(p, LAMBDA e : e.k # k)

\* was: oldVNode.props before the call; old: oldVNode.props; new: newVNode.props;
\* calls: the setAttribute and removeAttribute calls made, in order
NoAttrs == [was |-> <<>>, old |-> <<>>, new |-> <<>>, calls |-> <<>>, widget |-> FALSE,
            done |-> FALSE]
AttrInputs ==
  {[NoAttrs EXCEPT !.was = PropsOf(f), !.old = PropsOf(f), !.new = PropsOf(g)] :
     f \in [AttrKeySet -> AttrVals \cup {"absent"}],
     g \in [AttrKeySet -> AttrVals \cup {"absent"}]}

\* Object.keys(newAttrs).forEach(key => ...)
RECURSIVE AttrSetEach(_, _, _)
AttrSetEach(a, keys, isWidget) ==
  IF keys = <<>> THEN a
  ELSE LET k == Head(keys) IN
       AttrSetEach(
         IF ~StrictEq(PropGet(a.old, k), PropGet(a.new, k))
         THEN [a EXCEPT !.calls = IF isWidget THEN @
                                  ELSE Append(@, [op |-> "set", k |-> k, v |-> PropGet(a.new, k)]),
                        !.old = PropSet(@, k, PropGet(a.new, k))]
         ELSE a,
         Tail(keys), isWidget)

\* oldKeysSet.forEach(key => ...)
RECURSIVE AttrRemoveEach(_, _, _)
AttrRemoveEach(a, keys, isWidget) ==
  IF keys = <<>> THEN a
  ELSE LET k == Head(keys) IN
       AttrRemoveEach(
         [a EXCEPT !.calls = IF isWidget THEN @
                             ELSE Append(@, [op |-> "remove", k |-> k, v |-> PropGet(a.old, k)]),
                   !.old = PropDelete(@, k)],
         Tail(keys), isWidget)

\* variant: the keys new does not have are left alone
PatchAttrs_NoRemoval(a, isWidget) ==
  [AttrSetEach(a, KeysOf(a.new), isWidget) EXCEPT !.widget = isWidget, !.done = TRUE]

\* patchAttrs(oldVNode, newVNode); oldKeysSet is what is left of the keys of
\* old once every key of new is deleted from it
PatchAttrs(a, isWidget) ==
  [AttrRemoveEach(AttrSetEach(a, KeysOf(a.new), isWidget),
                  SelectSeq(KeysOf(a.old), LAMBDA k : ~HasKey(a.new, k)), isWidget)
     EXCEPT !.widget = isWidget, !.done = TRUE]

\* ------------------------------------------------------------ WidgetRenderer
Hook(st, w, h) == [st EXCEPT !.hooks = Append(@, [w |-> w, h |-> h, a |-> "", b |-> ""])]
\* this._state = s
SetState(st, w, s) ==
  [st EXCEPT !.rd[w].state = s,
             !.hooks = Append(@, [w |-> w, h |-> "state", a |-> st.rd[w].state, b |-> s])]
HasInstance(st, vnode) == vnode.w # "" /\ st.rd[vnode.w].made
RemoveEl(st, el) == [st EXCEPT !.dom = [c \in Containers |-> Without(st.dom[c], el)]]
\* parent.insertBefore(newEl, oldEl)
InsertBefore(q, newEl, oldEl) ==
  LET i == CHOOSE j \in 1..Len(q) : q[j] = oldEl
  IN SubSeq(q, 1, i - 1) \o <<newEl>> \o SubSeq(q, i, Len(q))
\* parent.replaceChild(newEl, oldEl)
ReplaceChild(q, newEl, oldEl) ==
  [j \in 1..Len(q) |-> IF q[j] = oldEl THEN newEl ELSE q[j]]
ParentOfEl(st, el) ==
  IF \E c \in Containers : InSeq(el, st.dom[c])
  THEN CHOOSE c \in Containers : InSeq(el, st.dom[c]) ELSE ""

\* the value widget.build() reads through the reactive proxy
ReadValue(st, w) ==
  IF Reads[w] = <<>> THEN "k" ELSE Held(st.raw[Reads[w][1].o][Reads[w][1].props[1]])

\* build(): widget.build() throws when the value it reads is NaN
RendererBuild(st, w) ==
  LET val == ReadValue(st, w)
      id == FreshId(w, st.rd[w].child.id)
      s1 == Hook(st, w, "build")
  IN IF val = "NaN"
     THEN LET s2 == Hook(s1, w, "error") IN
          IF st.rd[w].onError = "tree" THEN [s2 EXCEPT !.built = ErrTree(id)]
          ELSE [s2 EXCEPT !.exc = "throw"]
     ELSE [s1 EXCEPT !.built = WidgetBuild(w, id, val)]

\* ------------------------------------------------------------ patchChildren
\* an entry of a children list: null, a text node or an element description;
\* the backend node of a rendered entry is named by its id
Nul == [kind |-> "null", id |-> <<>>, type |-> "", v |-> ""]
TextK(id, v) == [kind |-> "text", id |-> id, type |-> "", v |-> v]
ElK(id, type, v) == [kind |-> "el", id |-> id, type |-> type, v |-> v]
Truthy(c) == c.kind # "null"
\* list[i] of a JavaScript array: undefined past its end
At(list, i) == IF i \in 1..Len(list) THEN list[i] ELSE Nul
Present(list) == SelectSeq(list, Truthy)
IdsOf(list) == [i \in 1..Len(list) |-> list[i].id]
OldKid(i) == {Nul, ElK(<<"o", i>>, "p", "v1"), TextK(<<"o", i>>, "v1")}
NewKid(i) ==
  {Nul, ElK(<<"n", i>>, "p", "v2"), ElK(<<"n", i>>, "q", "v2"), TextK(<<"n", i>>, "v2")}
OldLists == UNION {{f \in [1..n -> UNION {OldKid(i) : i \in 1..n}] : \A i \in 1..n : f[i] \in OldKid(i)} : n \in 0..MaxKids}
NewLists == UNION {{f \in [1..n -> UNION {NewKid(i) : i \in 1..n}] : \A i \in 1..n : f[i] \in NewKid(i)} : n \in 0..MaxKids}

\* was: oldVNode.children before the call; old: oldVNode.children; new:
\* newVNode.children; oldNone, newNone: the node has no children list;
\* nodes: the child nodes of oldVNode.el, in order; log: what was done to
\* which entries, in order
NoKids == [was |-> <<>>, old |-> <<>>, new |-> <<>>, oldNone |-> FALSE, newNone |-> FALSE,
           wasNone |-> FALSE, nodes |-> <<>>, log |-> <<>>, exc |-> "none", done |-> FALSE]
KidsInputs ==
  {[NoKids EXCEPT !.was = o, !.old = o, !.new = n, !.nodes = IdsOf(Present(o))] :
     o \in OldLists, n \in NewLists}
  \cup {[NoKids EXCEPT !.oldNone = TRUE, !.wasNone = TRUE, !.new = n] : n \in NewLists}
  \cup {[NoKids EXCEPT !.was = o, !.old = o, !.newNone = TRUE, !.nodes = IdsOf(Present(o))] :
          o \in OldLists}
  \cup {[NoKids EXCEPT !.oldNone = TRUE, !.wasNone = TRUE, !.newNone = TRUE]}

KidLog(k, op, o, n) == [k EXCEPT !.log = Append(@, [op |-> op, o |-> o.id, n |-> n.id])]
\* unmountVNode(child): removeElement(vnode.el) or vnode.el?.remove()
KidUnmount(k, c) ==
  IF Truthy(c) THEN [KidLog(k, "unmount", c, Nul) EXCEPT !.nodes = Without(@, c.id)] ELSE k
RECURSIVE KidUnmountEach(_, _)
KidUnmountEach(k, list) ==
  IF list = <<>> THEN k ELSE KidUnmountEach(KidUnmount(k, Head(list)), Tail(list))
\* renderChild(parent, child): renderElement(child, parent) appends the node
\* of the child to the parent
RenderChild(k, c) ==
  IF Truthy(c) THEN [KidLog(k, "create", Nul, c) EXCEPT !.nodes = Append(@, c.id)] ELSE k
RECURSIVE RenderChildren(_, _)
RenderChildren(k, list) ==
  IF list = <<>> THEN k ELSE RenderChildren(RenderChild(k, Head(list)), Tail(list))
\* replaceVNode(newChild, oldChild): the parent is read from oldChild.el; the
\* node of new takes the place of the node of old; an old text node is not
\* unmounted
KidReplace(k, o, n) ==
  IF ~Truthy(o) THEN [k EXCEPT !.exc = "throw"]
  ELSE LET k1 == [KidLog(k, "create", o, n) EXCEPT !.nodes = ReplaceChild(@, n.id, o.id)]
       IN IF o.kind = "text" THEN k1 ELSE KidLog(k1, "unmount", o, Nul)
\* oldVNode.children[i] = c, oldChildren.splice(i, 1)
KidPut(list, i, c) ==
  IF i \in 1..Len(list) THEN [list EXCEPT ![i] = c] ELSE Append(list, c)
KidSplice(list, i) ==
  IF i \in 1..Len(list) THEN SubSeq(list, 1, i - 1) \o SubSeq(list, i + 1, Len(list)) ELSE list

\* patchChild(oldVNode, oldChild, newChild), and what patchChildren does
\* with the child it returns: adj is adjustedIndex
PatchChild(k, adj, o, n) ==
  IF Truthy(o) /\ ~Truthy(n)
  THEN [KidUnmount(k, o) EXCEPT !.old = KidSplice(@, adj)]
  ELSE IF ~Truthy(o) /\ Truthy(n)
  THEN [RenderChild(k, n) EXCEPT !.old = KidPut(@, adj, n)]
  ELSE IF o.kind = "text" /\ n.kind = "text"
  THEN [KidLog(k, "text", o, n) EXCEPT !.old = KidPut(@, adj, [o EXCEPT !.v = n.v])]
  ELSE IF o.kind = "el" /\ n.kind = "el"
  THEN IF o.type # n.type
       THEN [KidReplace(k, o, n) EXCEPT !.old = KidPut(@, adj, n)]
       ELSE [KidLog(k, "patch", o, n) EXCEPT !.old = KidPut(@, adj, [o EXCEPT !.v = n.v])]
  ELSE LET k1 == KidReplace(k, o, n)
       IN IF k1.exc # "none" THEN k1 ELSE [k1 EXCEPT !.old = KidPut(@, adj, n)]

\* Math.max(oldChildren.length, newChildren.length)
MaxLength(k) == IF Len(k.old) > Len(k.new) THEN Len(k.old) ELSE Len(k.new)

\* for (let i = 0; i < maxLength; i++) { ... }: i counts from 1 here
RECURSIVE KidsLoop(_, _, _, _)
KidsLoop(k, i, offset, maxLength) ==
  IF i > maxLength \/ k.exc # "none" THEN k
  ELSE LET o == At(k.old, i - offset)
           n == At(k.new, i)
       IN KidsLoop(PatchChild(k, i - offset, o, n), i + 1,
                   IF Truthy(o) /\ ~Truthy(n) THEN offset + 1 ELSE offset, maxLength)

\* patchChildren(oldVNode, newVNode) of an element
PatchChildren(k) ==
  [(IF k.oldNone /\ k.newNone THEN k
    ELSE IF k.oldNone
    THEN [RenderChildren(k, k.new) EXCEPT !.old = k.new, !.oldNone = FALSE]
    ELSE IF k.newNone
    THEN [KidUnmountEach(k, k.old) EXCEPT !.old = <<>>, !.oldNone = TRUE]
    ELSE KidsLoop(k, 1, 0, MaxLength(k)))
     EXCEPT !.done = TRUE]

\* ------------------------------------------------------------ watchDepend
RECURSIVE RendererUpdate(_, _, _)

\* what a run of fn reads in state st
ReadsOf(st, fn) ==
  IF fn \in Components /\ st.rd[fn].alt /\ Held(st.raw["o1"]["x"]) = "v2"
  THEN <<[o |-> "o1", props |-> <<"x", "y">>]>>
  ELSE Reads[fn]

RunFn(st, fn) == IF fn \in Components THEN RendererBuild(st, fn) ELSE CallPlain(st, fn, <<>>, "")

\* Depend.collect(fn): runs fn once and returns what it read, per source in
\* the order of the first read
DependCollect(st, fn) == [RunFn(st, fn) EXCEPT !.deps = ReadsOf(st, fn)]

RECURSIVE AddEach(_, _, _, _, _)
AddEach(st, tb, origin, props, l) ==
  IF props = <<>> \/ st.exc # "none" THEN st
  ELSE AddEach(AddListener(st, tb, origin, Head(props), l), tb, origin, Tail(props), l)

\* #createListener(callback, options): a function gets a new Listener
CreateListener(st, l) == IF st.ls[l].made THEN st ELSE NewListener(st, l, 0, FALSE)

\* Observers.registerProps(origin, props, listener, {batch})
RegisterProps(st, origin, props, l, batch) ==
  IF origin \in Primitives THEN [st EXCEPT !.exc = "throw"]
  ELSE IF props = <<>> THEN [st EXCEPT !.exc = "throw"]
  ELSE IF ~batch \/ Len(props) = 1
  THEN AddEach(CreateListener(st, l), ListOf(batch), origin, props, l)
  ELSE Then(AddNotBatchCallback(CreateListener(st, l), origin, DebouncedOf[l], ALL_CHANGE_SYMBOL),
            LAMBDA s1 :
         ListenerOnDestroyed(s1, l, UnregCallback(GetObserveTarget(origin), DebouncedOf[l])))

\* deps.forEach((props, proxy) => Observers.registerProps(proxy, props, subListener))
RECURSIVE RegisterDeps(_, _, _)
RegisterDeps(st, deps, sub) ==
  IF deps = <<>> \/ st.exc # "none" THEN st
  ELSE RegisterDeps(RegisterProps(st, Head(deps).o, Head(deps).props, sub, TRUE), Tail(deps), sub)

\* variant: only the first source read is registered
WatchDepend_FirstSourceOnly(st, k) ==
  Then(DependCollect(st, k), LAMBDA s1 :
    IF Len(s1.deps) > 0
    THEN LET main == MainOf[k]
             sub == SubOf[k]
             s2 == IF WatchBatch[k]
                   THEN ObserversRegister(NewListener(s1, main, WatchLimit[k], FALSE), DepsOf[k],
                                          main, ALL_CHANGE_SYMBOL, TRUE)
                   ELSE NewListener(s1, main, WatchLimit[k], FALSE)
         IN Then(s2, LAMBDA s3 :
              Then(ListenerOnDestroyed(NewListener(s3, sub, WatchLimit[k], FALSE), main,
                                       ListenerDel(sub)),
                   LAMBDA s4 :
                Then(RegisterDeps(s4, <<Head(s4.deps)>>, sub), LAMBDA s5 :
                  [s5 EXCEPT !.handle = main])))
    ELSE [s1 EXCEPT !.handle = ""])

\* watchDepend(fn, callback, options): handle is the listener it returns
WatchDepend(st, k) ==
  Then(DependCollect(st, k), LAMBDA s1 :
    IF Len(s1.deps) > 0
    THEN LET main == MainOf[k]
             sub == SubOf[k]
             s2 == IF WatchBatch[k]
                   THEN ObserversRegister(NewListener(s1, main, WatchLimit[k], FALSE), DepsOf[k],
                                          main, ALL_CHANGE_SYMBOL, TRUE)
                   ELSE NewListener(s1, main, WatchLimit[k], FALSE)
         IN Then(s2, LAMBDA s3 :
              Then(ListenerOnDestroyed(NewListener(s3, sub, WatchLimit[k], FALSE), main,
                                       ListenerDel(sub)),
                   LAMBDA s4 :
                Then(RegisterDeps(s4, s4.deps, sub), LAMBDA s5 : [s5 EXCEPT !.handle = main])))
    ELSE [s1 EXCEPT !.handle = ""])

\* the callbacks watchDepend gives its two listeners
ListenerBody(st, l) ==
  IF \E k \in Watchers : l = SubOf[k]
  THEN LET k == CHOOSE k \in Watchers : l = SubOf[k] IN
       IF WatchBatch[k]
       THEN [ObserversTrigger(st, DepsOf[k], <<change>>) EXCEPT !.ph = st.ph, !.ntrig = st.ntrig]
       ELSE ListenerTrigger(st, MainOf[k], <<>>, "")
  ELSE IF \E k \in Watchers : l = MainOf[k]
  THEN LET k == CHOOSE k \in Watchers : l = MainOf[k] IN
       IF k \in Components THEN RendererUpdate(st, k, NoVNode)
       ELSE CallPlain(st, WatchTarget[k], <<>>, "")
  ELSE IF l \in DOMAIN Retrigger
  THEN [ObserversTrigger(st, Retrigger[l][1], <<Retrigger[l][2]>>) EXCEPT !.ph = st.ph,
                                                                        !.ntrig = st.ntrig]
  ELSE st

\* ------------------------------------------------------------ watch, watchProps
IsProxy(x) == x \in Origins \cup DOMAIN Redirect

RECURSIVE UnregEach(_, _, _, _)
UnregEach(st, tb, origins, l) ==
  IF origins = <<>> \/ st.exc # "none" THEN st
  ELSE UnregEach(ListenerOnDestroyed(st, l, Unreg(tb, GetObserveTarget(Head(origins)),
                                                  ALL_CHANGE_SYMBOL)),
                 tb, Tail(origins), l)
RECURSIVE AddEachOrigin(_, _, _, _)
AddEachOrigin(st, tb, origins, l) ==
  IF origins = <<>> \/ st.exc # "none" THEN st
  ELSE AddEachOrigin(AddListener(st, tb, Head(origins), ALL_CHANGE_SYMBOL, l), tb,
                     Tail(origins), l)

\* Observers.registers(origins, listener, {batch}): the cleanup removes the
\* listener from every source
Registers(st, origins, l, batch) ==
  IF origins = <<>> THEN [st EXCEPT !.exc = "throw"]
  ELSE Then(AddEachOrigin(CreateListener(st, l), ListOf(batch), origins, l), LAMBDA s1 :
         UnregEach(s1, ListOf(batch), origins, l))

\* watchPropValue(origin, prop, callback, options)
WatchPropValue(st, origin, prop, l, batch) ==
  IF ~IsProxy(origin) THEN [st EXCEPT !.exc = "throw"]
  ELSE Then(ObserversRegister(NewListener(st, l, 0, FALSE), origin, l, prop, batch),
            LAMBDA s1 : [s1 EXCEPT !.handle = l])

\* the main and the auxiliary listener of watch and watchProps
MainAndSub(st, main, batch) ==
  IF batch
  THEN ObserversRegister(NewListener(st, main, 0, FALSE), ArgOrigin, main, ALL_CHANGE_SYMBOL, TRUE)
  ELSE NewListener(st, main, 0, FALSE)

\* variant: the property list is not checked
WatchProps_NoEmptyCheck(st, origin, props, main, sub, batch) ==
  IF ~IsProxy(origin) THEN [st EXCEPT !.exc = "throw"]
  ELSE Then(MainAndSub(st, main, batch), LAMBDA s1 :
         Then(RegisterProps(NewListener(s1, sub, 0, FALSE), origin, props, sub, batch), LAMBDA s2 :
           Then(ListenerOnDestroyed(s2, main, ListenerDel(sub)), LAMBDA s3 :
             [s3 EXCEPT !.handle = main])))

\* watchProps(origin, props, callback, {batch})
WatchProps(st, origin, props, main, sub, batch) ==
  IF ~IsProxy(origin) THEN [st EXCEPT !.exc = "throw"]
  ELSE IF Len(props) = 0 THEN [st EXCEPT !.exc = "throw"]
  ELSE Then(MainAndSub(st, main, batch), LAMBDA s1 :
         Then(RegisterProps(NewListener(s1, sub, 0, FALSE), origin, props, sub, batch), LAMBDA s2 :
           Then(ListenerOnDestroyed(s2, main, ListenerDel(sub)), LAMBDA s3 :
             [s3 EXCEPT !.handle = main])))

\* watch(origin, callback, {batch}) with a list
WatchList(st, items, main, sub, batch) ==
  IF Len(items) = 0 THEN [st EXCEPT !.exc = "throw"]
  ELSE IF \A i \in 1..Len(items) : IsProxy(items[i])
  THEN Then(MainAndSub(st, main, batch), LAMBDA s1 :
         Then(Registers(NewListener(s1, sub, 0, FALSE), items, sub, batch), LAMBDA s2 :
           Then(ListenerOnDestroyed(s2, main, ListenerDel(sub)), LAMBDA s3 :
             [s3 EXCEPT !.handle = main])))
  ELSE [st EXCEPT !.exc = "throw"]

\* watch(origin, callback, {batch})
WatchCall(st, a, main, sub, batch) ==
  IF a \notin Getters /\ Len(ItemsOf[a]) = 1 /\ IsProxy(ItemsOf[a][1])
  THEN Then(ObserversRegister(NewListener(st, main, 0, FALSE), ItemsOf[a][1], main,
                              ALL_CHANGE_SYMBOL, batch),
            LAMBDA s1 : [s1 EXCEPT !.handle = main])
  ELSE IF a \in Getters
  THEN Then(RunFn(st, a), LAMBDA s1 :
         IF ItemsOf[a] = <<>>
         THEN Then(DependCollect(s1, a), LAMBDA s2 :
                IF Len(s2.deps) = 1 /\ Len(s2.deps[1].props) = 1
                THEN WatchPropValue(s2, s2.deps[1].o, s2.deps[1].props[1], main, batch)
                ELSE [s2 EXCEPT !.exc = "throw"])
         ELSE [s1 EXCEPT !.exc = "throw"])
  ELSE IF a \in {"emptyList", "mixedList", "proxyList"}
  THEN WatchList(st, ItemsOf[a], main, sub, batch)
  ELSE [st EXCEPT !.exc = "throw"]

\* ------------------------------------------------------------ renderer operations
RECURSIVE RendererRender(_, _, _), RenderElement(_, _, _), RenderEach(_, _, _)
RECURSIVE RendererMount(_, _), MountVNode(_, _), MountEach(_, _)
RECURSIVE RendererUnmount(_, _, _), UnmountVNode(_, _, _), UnmountEach(_, _)
RECURSIVE RendererActivate(_, _, _), RendererDeactivate(_, _, _)
RECURSIVE UpdateActivateState(_, _, _), ActivateEach(_, _, _)

\* new WidgetRenderer(widget), for a widget whose error hook returns onError
RendererConstruct(st, w, onError) ==
  LET s0 == [st EXCEPT !.rd[w] = [NoRenderer EXCEPT !.onError = onError, !.alt = st.rd[w].alt],
                       !.fx[ScopeOf[w]] = [NoEffect EXCEPT !.made = TRUE, !.hasSet = TRUE]]
  IN Then(WatchDepend(s0, w), LAMBDA s1 :
       Then(IF s1.handle # "" /\ s1.currentScope = ""
            THEN ScopeAdd(s1, ScopeOf[w], s1.handle) ELSE s1,
            LAMBDA s2 : [s2 EXCEPT !.rd[w].child = s1.built, !.rd[w].made = TRUE]))

\* renderElement(vnode, container): makes the backend nodes of the description
\* and the instance of every component node in it, which it renders
\* acc: the children rendered so far; c: the parent node the children go into
RenderEach(st, kids, c) ==
  IF kids = <<>> \/ st.exc # "none" THEN st
  ELSE Then(RenderElement([st EXCEPT !.acc = <<>>], Head(kids), c), LAMBDA s1 :
         RenderEach([s1 EXCEPT !.acc = Append(st.acc, s1.built)], Tail(kids), c))

RenderElement(st, vnode, c) ==
  IF vnode.w # ""
  THEN Then(RendererConstruct(st, vnode.w, "none"), LAMBDA s1 :
         Then(RendererRender(s1, vnode.w, c), LAMBDA s2 :
           [s2 EXCEPT !.built = [vnode EXCEPT !.el = s2.rd[vnode.w].child.el]]))
  ELSE Then(RenderEach([st EXCEPT !.acc = <<>>], vnode.kids,
                       IF vnode.id = "" THEN c ELSE InsideOf(vnode.id)),
            LAMBDA s1 :
         [s1 EXCEPT !.built = [vnode EXCEPT !.el = vnode.id, !.kids = s1.acc],
                    !.dom = IF c = "" \/ vnode.id = "" THEN @
                            ELSE [@ EXCEPT ![c] = Append(@, vnode.id)]])

\* render(): catch (e) { ... }, with the error hook of the widget
RenderCatch(st, w) ==
  IF st.exc = "throw"
  THEN IF st.rd[w].onError = "tree"
       THEN RenderElement(Hook(Caught(st), w, "error"), ErrTree(FreshId(w, st.rd[w].child.id)), "")
       ELSE [Hook(Caught(st), w, "error") EXCEPT !.exc = "throw"]
  ELSE st

\* render(): this._teleport = target; container?.appendChild(this.shadowElement)
Teleported(st, w, c) ==
  [st EXCEPT !.rd[w].teleport = TeleportOf[w],
             !.dom = IF c = "" THEN @ ELSE [@ EXCEPT ![c] = Append(@, ShadowOf[w])]]

\* render(container)
RendererRender(st, w, c) ==
  IF st.rd[w].state # "notRendered" THEN [st EXCEPT !.exc = "throw"]
  ELSE Then(RenderCatch(IF TeleportOf[w] # ""
                        THEN RenderElement(Teleported(Hook(st, w, "beforeMount"), w, c),
                                           st.rd[w].child, "")
                        ELSE RenderElement(Hook(st, w, "beforeMount"), st.rd[w].child, c),
                        w),
            LAMBDA s4 : SetState([s4 EXCEPT !.rd[w].child = s4.built], w, "notMounted"))

MountEach(st, kids) ==
  IF kids = <<>> \/ st.exc # "none" THEN st
  ELSE MountEach(MountVNode(st, Head(kids)), Tail(kids))

MountVNode(st, vnode) ==
  IF HasInstance(st, vnode)
  THEN Then(MountVNode(st, st.rd[vnode.w].child), LAMBDA s1 : RendererMount(s1, vnode.w))
  ELSE MountEach(st, vnode.kids)

\* this.teleport.appendChild(this.el)
TeleportAppend(st, w) ==
  IF st.rd[w].teleport # ""
  THEN [st EXCEPT !.dom = [RemoveEl(st, st.rd[w].child.el).dom EXCEPT
                             ![st.rd[w].teleport] = Append(@, st.rd[w].child.el)]]
  ELSE st

\* variant: the hooks fire before the state is set
RendererMount_HooksFirst(st, w) ==
  IF st.rd[w].state # "notMounted" THEN st
  ELSE Then(MountVNode(st, st.rd[w].child), LAMBDA s1 :
         SetState(Hook(Hook(TeleportAppend(s1, w), w, "mounted"), w, "activated"), w, "activated"))

\* variant: mount() does not look at the state
RendererMount_NoStateCheck(st, w) ==
  Then(MountVNode(st, st.rd[w].child), LAMBDA s1 :
    Hook(Hook(SetState(TeleportAppend(s1, w), w, "activated"), w, "mounted"), w, "activated"))

\* mount()
RendererMount(st, w) ==
  IF st.rd[w].state # "notMounted" THEN st
  ELSE Then(MountVNode(st, st.rd[w].child), LAMBDA s1 :
         Hook(Hook(SetState(TeleportAppend(s1, w), w, "activated"), w, "mounted"), w, "activated"))

UnmountEach(st, kids) ==
  IF kids = <<>> \/ st.exc # "none" THEN st
  ELSE UnmountEach(UnmountVNode(st, Head(kids), FALSE), Tail(kids))

UnmountVNode(st, vnode, removeEl) ==
  IF HasInstance(st, vnode) THEN RendererUnmount(st, vnode.w, removeEl)
  ELSE Then(UnmountEach(st, vnode.kids), LAMBDA s1 :
         IF removeEl THEN RemoveEl(s1, vnode.el) ELSE s1)

\* variant: the scope of the component is left as it is
RendererUnmount_KeepsScope(st, w, root) ==
  IF st.rd[w].state # "uninstalling" /\ st.rd[w].state # "unloaded"
  THEN LET s1 == SetState(st, w, "uninstalling")
           s2 == IF root THEN Hook(s1, w, "beforeRemove") ELSE s1
       IN Then(UnmountVNode(Hook(s2, w, "beforeUnmount"), s2.rd[w].child, root), LAMBDA s3 :
            Hook(Hook(SetState(RemoveEl(Hook(s3, w, "scopeDestroyed"), ShadowOf[w]), w, "unloaded"),
                      w, "deactivate"), w, "unmounted"))
  ELSE st

\* unmount(root); the event scopeDestroyed marks the return of scope.destroy()
RendererUnmount(st, w, root) ==
  IF st.rd[w].state # "uninstalling" /\ st.rd[w].state # "unloaded"
  THEN LET s1 == SetState(st, w, "uninstalling")
           s2 == IF root THEN Hook(s1, w, "beforeRemove") ELSE s1
       IN Then(UnmountVNode(Hook(s2, w, "beforeUnmount"), s2.rd[w].child, root), LAMBDA s3 :
            Then(ScopeDestroy(s3, ScopeOf[w]), LAMBDA s4 :
              Hook(Hook(SetState(RemoveEl(Hook(s4, w, "scopeDestroyed"), ShadowOf[w]),
                                 w, "unloaded"),
                        w, "deactivate"), w, "unmounted")))
  ELSE st

\* vnode.el: the backend node of a component node is the one of its instance
ElOf(st, vnode) == IF HasInstance(st, vnode) THEN st.rd[vnode.w].child.el ELSE vnode.el

\* replaceVNode: insertElement before the node of an old component, which its
\* unmount removes; replaceElement for any other old node; the placeholder of
\* a teleported old component is read from renderer.teleport, an Element,
\* which has none
PlaceNew(st, newEl, old, parent) ==
  IF HasInstance(st, old)
  THEN IF st.rd[old.w].teleport # "" THEN [st EXCEPT !.exc = "throw"]
       ELSE [st EXCEPT !.dom[parent] = InsertBefore(@, newEl, ElOf(st, old))]
  ELSE [st EXCEPT !.dom[parent] = ReplaceChild(@, newEl, ElOf(st, old))]

\* a backend node that leaves the document takes the nodes inside it along
RECURSIVE Detach(_, _), DetachAll(_, _)
Detach(st, el) ==
  IF InsideOf(el) = "" THEN st
  ELSE DetachAll([st EXCEPT !.dom[InsideOf(el)] = <<>>], st.dom[InsideOf(el)])
DetachAll(st, els) ==
  IF els = <<>> THEN st ELSE DetachAll(Detach(st, Head(els)), Tail(els))

\* replaceVNode(newVNode, oldVNode, parent)
ReplaceVNode(st, new, old, parent) ==
  IF parent = "" THEN [st EXCEPT !.exc = "throw"]
  ELSE Then(RenderElement(st, new, ""), LAMBDA s1 :
         Then(IF HasInstance(s1, s1.built) /\ s1.rd[s1.built.w].teleport # "" THEN s1
              ELSE PlaceNew(s1, s1.built.el, old, parent),
              LAMBDA s2 :
           Then(UnmountVNode(s2, old, TRUE), LAMBDA s3 :
             Then(MountVNode(Detach(s3, ElOf(st, old)), s1.built), LAMBDA s4 :
               [s4 EXCEPT !.built = s1.built]))))

RECURSIVE PatchUpdate(_, _, _), PatchEach(_, _, _)

\* patchChildren(oldVNode, newVNode): patchChild on the children pair by pair,
\* each a description on both sides; acc is oldVNode.children after the loop
PatchEach(st, olds, news) ==
  IF olds = <<>> \/ news = <<>> \/ st.exc # "none" THEN st
  ELSE Then(PatchUpdate([st EXCEPT !.acc = <<>>], Head(olds), Head(news)), LAMBDA s1 :
         PatchEach([s1 EXCEPT !.acc = Append(st.acc, s1.built)], Tail(olds), Tail(news)))

\* patchAttrs, patchChildren of a pair: b tells whether the pair is one
\* patchUpdate keeps
Diffed(st, old, new, h) ==
  [st EXCEPT !.hooks =
     Append(@, [w |-> old.id, h |-> h, a |-> old.type,
                b |-> IF old.type # new.type \/ old.key # new.key THEN "differ" ELSE "same"])]

\* patchUpdate(oldVNode, newVNode): built is the description it returns; the
\* attributes and the text of a description that was never rendered have no
\* backend node to be written to
PatchUpdate(st, old, new) ==
  IF old.type # new.type \/ old.key # new.key
  THEN ReplaceVNode(st, new, old, ParentOfEl(st, ElOf(st, old)))
  ELSE Then(IF old.type # Fragment
            THEN IF old.w = "" /\ old.v # new.v /\ old.el = ""
                 THEN [Diffed(st, old, new, "patchAttrs") EXCEPT !.exc = "throw"]
                 ELSE Diffed(st, old, new, "patchAttrs")
            ELSE st,
            LAMBDA s1 :
         IF old.w = ""
         THEN Then(PatchEach([Diffed(s1, old, new, "patchChildren") EXCEPT !.acc = <<>>],
                             old.kids, new.kids),
                   LAMBDA s2 : [s2 EXCEPT !.built = [old EXCEPT !.v = new.v, !.kids = s2.acc]])
         ELSE [s1 EXCEPT !.built = [old EXCEPT !.v = new.v]])

\* variant: the catch block leaves the flag set
UpdateCatch_KeepFlag(st, w) == st

\* update(): catch (e) { this._pendingUpdate = false; throw e }
UpdateCatch(st, w) == IF st.exc = "throw" THEN [st EXCEPT !.rd[w].pendingUpdate = FALSE] ELSE st

\* const newVNode = newChildVNode || this.build()
NewChild(st, w, new) == IF new = NoVNode THEN RendererBuild(st, w) ELSE [st EXCEPT !.built = new]

\* variant: the pending-update flag is not consulted
RendererUpdate_NoPendingGuard(st, w, new) ==
  IF st.rd[w].state = "unloaded" THEN st
  ELSE IF st.rd[w].state = "deactivate" THEN st
  ELSE UpdateCatch(
         Then(NewChild(Hook([st EXCEPT !.rd[w].pendingUpdate = TRUE], w, "beforeUpdate"), w, new),
              LAMBDA s3 :
           Then(PatchUpdate(Hook(s3, w, "patch"), s3.rd[w].child, s3.built), LAMBDA s4 :
             Hook([s4 EXCEPT !.rd[w].child = s4.built,
                             !.timers = Append(@, [k |-> "clear", w |-> w])],
                  w, "updated"))), w)

\* variant: update() does not look at the state
RendererUpdate_NoStateCheck(st, w, new) ==
  IF st.rd[w].pendingUpdate THEN st
  ELSE UpdateCatch(
         Then(NewChild(Hook([st EXCEPT !.rd[w].pendingUpdate = TRUE], w, "beforeUpdate"), w, new),
              LAMBDA s3 :
           Then(PatchUpdate(Hook(s3, w, "patch"), s3.rd[w].child, s3.built), LAMBDA s4 :
             Hook([s4 EXCEPT !.rd[w].child = s4.built,
                             !.timers = Append(@, [k |-> "clear", w |-> w])],
                  w, "updated"))), w)

\* update(newChildVNode)
RendererUpdate(st, w, new) ==
  IF st.rd[w].state = "unloaded" THEN st
  ELSE IF st.rd[w].state = "deactivate" THEN st
  ELSE IF st.rd[w].pendingUpdate THEN st
  ELSE UpdateCatch(
         Then(NewChild(Hook([st EXCEPT !.rd[w].pendingUpdate = TRUE], w, "beforeUpdate"), w, new),
              LAMBDA s3 :
           Then(PatchUpdate(Hook(s3, w, "patch"), s3.rd[w].child, s3.built), LAMBDA s4 :
             Hook([s4 EXCEPT !.rd[w].child = s4.built,
                             !.timers = Append(@, [k |-> "clear", w |-> w])],
                  w, "updated"))), w)

\* updateActivateState(vnode, activate)
ActivateEach(st, kids, activate) ==
  IF kids = <<>> \/ st.exc # "none" THEN st
  ELSE ActivateEach(UpdateActivateState(st, Head(kids), activate), Tail(kids), activate)

\* variant: the children of a node that is no component are not visited
UpdateActivateState_NoDescent(st, vnode, activate) ==
  IF HasInstance(st, vnode)
  THEN IF activate THEN RendererActivate(st, vnode.w, FALSE)
       ELSE RendererDeactivate(st, vnode.w, FALSE)
  ELSE st

UpdateActivateState(st, vnode, activate) ==
  IF HasInstance(st, vnode)
  THEN IF activate THEN RendererActivate(st, vnode.w, FALSE)
       ELSE RendererDeactivate(st, vnode.w, FALSE)
  ELSE ActivateEach(st, vnode.kids, activate)

\* activate(root)
RendererActivate(st, w, root) ==
  IF st.rd[w].state = "deactivate"
  THEN Then(UpdateActivateState(SetState(st, w, "activated"), st.rd[w].child, TRUE), LAMBDA s1 :
         LET c == ParentOfEl(s1, ShadowOf[w])
             s2 == IF s1.rd[w].teleport # "" THEN TeleportAppend(s1, w)
                   ELSE IF root /\ c # ""
                   THEN [s1 EXCEPT !.dom[c] = ReplaceChild(@, s1.rd[w].child.el, ShadowOf[w])]
                   ELSE s1
         IN Then(ScopeUnpause(s2, ScopeOf[w]), LAMBDA s3 :
              Then(RendererUpdate(s3, w, NoVNode), LAMBDA s4 : Hook(s4, w, "activated"))))
  ELSE st

\* deactivate(root): the scope is paused by a macrotask
RendererDeactivate(st, w, root) ==
  IF st.rd[w].state # "activated" THEN st
  ELSE Then(UpdateActivateState(SetState(st, w, "deactivate"), st.rd[w].child, FALSE),
            LAMBDA s1 :
         LET el == s1.rd[w].child.el
             c == ParentOfEl(s1, el)
             s2 == Hook(s1, w, "beforeRemove")
             s3 == IF s2.rd[w].teleport # "" THEN RemoveEl(s2, el)
                   ELSE IF root /\ c # ""
                   THEN [s2 EXCEPT !.dom[c] = Without(InsertBefore(@, ShadowOf[w], el), el)]
                   ELSE s2
         IN [s3 EXCEPT !.timers = Append(@, [k |-> "pause", w |-> w])])

\* a setTimeout callback runs
RunTimer(st, t) ==
  IF t.k = "clear" THEN [st EXCEPT !.rd[t.w].pendingUpdate = FALSE]
  ELSE Then(ScopePause(st, ScopeOf[t.w]), LAMBDA s1 : Hook(s1, t.w, "deactivate"))

\* ------------------------------------------------------------ initial state
InitRaw ==
  [o \in Origins |->
     IF o = "o1" THEN [p \in Props |-> IF p = "x" THEN Plain("v1") ELSE RefCell("v1")]
     ELSE [p \in Props |-> IF p = "x" THEN Plain("NaN") ELSE Absent]]

InitProgram ==
  /\ ls = [l \in ListenerIds \cup WatchListeners \cup ArgListeners \cup FlushIds |-> NoListener]
  /\ bt = EmptyMap
  /\ nb = EmptyMap
  /\ queue = <<>>
  /\ isHanding = FALSE
  /\ weakMapLock = {}
  /\ pending = 0
  /\ raw = InitRaw
  /\ fx = [m \in EffectIds \cup ScopeIds \cup WidgetScopes |-> NoEffect]
  /\ currentScope = ""
  /\ stack = <<>>
  /\ dcalls = <<>>
  /\ pcalls = <<>>
  /\ hung = FALSE
  /\ calls = <<>>
  /\ trigs = <<>>
  /\ since = {}
  /\ cancelled = {}
  /\ ran = [c \in CleanupIds |-> 0]
  /\ given = [c \in CleanupIds |-> ""]
  /\ fired = [l \in ListenerIds \cup WatchListeners \cup ArgListeners \cup FlushIds |-> 0]
  /\ wasReset = [l \in ListenerIds \cup WatchListeners \cup ArgListeners \cup FlushIds |-> FALSE]
  /\ ntrig = 0
  /\ rd = [w \in Components |-> NoRenderer]
  /\ dom = [c \in Containers |-> <<>>]
  /\ timers = <<>>
  /\ hooks = <<>>
  /\ last = [op |-> "init", id |-> "", arg |-> "", was |-> FALSE, ret |-> TRUE, exc |-> "none"]

Init == InitProgram /\ attrs = NoAttrs /\ childDiff = NoKids /\ heap = NoHeap

\* patchAttrs is about to be called on a pair of nodes with any props
InitAttrs == InitProgram /\ attrs \in AttrInputs /\ childDiff = NoKids /\ heap = NoHeap
\* the children lists patchChildren is called with, old's rendered
InitKids == InitProgram /\ attrs = NoAttrs /\ childDiff \in KidsInputs /\ heap = NoHeap
\* the plain objects wrappers are made of
InitHeap == InitProgram /\ attrs = NoAttrs /\ childDiff = NoKids /\ heap \in HeapInputs

\* ------------------------------------------------------------ actions
Made(l) == ls[l].made
Registered(e) ==
  \E tb \in {"bt", "nb"}, o \in Origins, k \in Keys : InSeq(e, Lookup(Tb(Cur, tb), o, k))

\* new Listener(cb, limit)
CreateSolo ==
  \E limit \in 0..MaxLimit, throws \in BOOLEAN :
    /\ ~hung /\ ~Made(ListenerOrder[1])
    /\ Commit(NewListener(Cur, ListenerOrder[1], limit, throws), "new", ListenerOrder[1])

\* listener.trigger([props, origin]) called directly
DirectTrigger ==
  \E l \in ListenerIds :
    /\ ~hung /\ Made(l) /\ fired[l] < MaxFired
    /\ Commit(ListenerTrigger(Cur, l, <<"x">>, "o1"), "trigger", l)

Pause ==
  \E l \in ListenerIds : ~hung /\ Made(l) /\ Commit(ListenerPause(Cur, l), "pause", l)

Unpause ==
  \E l \in ListenerIds : ~hung /\ Made(l) /\ Commit(ListenerUnpause(Cur, l), "unpause", l)

Reset ==
  \E l \in ListenerIds : ~hung /\ Made(l) /\ Commit(ListenerReset(Cur, l), "reset", l)

Destroy ==
  \E l \in ListenerIds : ~hung /\ Made(l) /\ Commit(ListenerDestroy(Cur, l), "destroy", l)

\* listener.onDestroyed(cleanup) with a user cleanup not passed before
OnDestroyed ==
  \E l \in ListenerIds, c \in CleanupIds :
    /\ ~hung /\ Made(l) /\ given[c] = ""
    /\ Commit(ListenerOnDestroyed([Cur EXCEPT !.given[c] = l], l, UserCleanup(c)),
              "onDestroyed", l)

\* Observers.register(origin, listener, prop, {batch}) with a Listener instance
\* that is live and not yet registered
Register ==
  \E origin \in Watched, l \in ListenerIds, prop \in Keys, batch \in BOOLEAN :
    /\ ~hung /\ Made(l) /\ ~ls[l].isDispose /\ ~Registered(l)
    /\ Commit(ObserversRegister(Cur, origin, l, prop, batch), "register", l)

\* Observers.register(origin, callback, prop, {batch, limit}) with a function:
\* #createListener makes the Listener
RegisterNew ==
  \E origin \in Watched, l \in ListenerIds, prop \in Keys, batch \in BOOLEAN :
   \E limit \in RegLimits[l] :
    /\ ~hung /\ ~Made(l)
    /\ Commit(ObserversRegister(NewListener(Cur, l, limit, l \in Throwers),
                                origin, l, prop, batch), "register", l)

\* Observers.register(origin, listener, prop) with a function the first time
\* and with the Listener instance it returned after that; the registrations
\* come before the first trigger call
RegisterBatched ==
  \E l \in FlushIds : \E a \in BindArgs[l] :
   LET origin == a[1]
       prop == a[2]
   IN
    /\ ~hung /\ ~ls[l].isDispose /\ ntrig = 0
    /\ ~InSeq(l, Lookup(bt, origin, prop))
    /\ Commit(ObserversRegister(IF Made(l) THEN Cur
                                ELSE NewListener(Cur, l, 0, FALSE),
                                origin, l, prop, TRUE), "register", l)

\* Observers.addNotBatchCallback(origin, f, prop)
AddCallback ==
  \E origin \in Watched, f \in CallbackIds, prop \in Keys :
    /\ ~hung /\ ~Registered(f)
    /\ Commit(AddNotBatchCallback(Cur, origin, f, prop), "addCallback", f)

\* Observers.trigger(origin, prop)
Trigger ==
  \E a \in TriggerArgs :
    /\ ~hung /\ ntrig < MaxTrig
    /\ Commit(ObserversTrigger(Cur, a[1], <<a[2]>>), "trigger", GetObserveTarget(a[1]))

\* the microtask scheduled by trigger runs
Flush ==
  /\ ~hung /\ pending > 0
  /\ Commit(HandleTriggerQueue(Cur), "flush", "")

\* proxy[prop] = newValue
Write ==
  \E o \in Written, prop \in Props, v \in Vals :
    /\ ~hung /\ ntrig < MaxTrig
    /\ Commit(ReactiveSet([Cur EXCEPT !.arg = v], o, prop, v), "set", prop)

\* delete proxy[prop]
Delete ==
  \E o \in Written, prop \in Props :
    /\ ~hung /\ ntrig < MaxTrig
    /\ Commit(ReactiveDelete(Cur, o, prop), "delete", prop)

\* new Scope(main, toParent): the constructor up to main(); the body of main
\* is the actions taken until ScopeEnd
ScopeBegin ==
  \E i \in 1..Len(ScopeOrder), toParent \in BOOLEAN :
    /\ ~hung
    /\ ~fx[ScopeOrder[i]].made /\ \A j \in 1..(i - 1) : fx[ScopeOrder[j]].made
    /\ Commit(ScopeEnter([Cur EXCEPT !.arg = currentScope], ScopeOrder[i], toParent),
              "newScope", ScopeOrder[i])

\* main() of the innermost running constructor returns
ScopeEnd ==
  /\ ~hung /\ stack # <<>>
  /\ Commit(ScopeLeave(Cur), "endScope", stack[Len(stack)].this)

\* new AutoDisposed(), inside or outside a scope body
NewEffect ==
  \E e \in EffectIds :
    /\ ~hung /\ ~fx[e].made
    /\ Commit(NewAutoDisposed([Cur EXCEPT !.arg = currentScope], e), "newEffect", e)

\* scope.add(effect) with an Effect instance
AddToScope ==
  \E s \in ScopeIds, e \in EffectIds :
    /\ ~hung /\ fx[s].made /\ fx[e].made /\ ~InSeq(e, fx[s].effects)
    /\ Commit(ScopeAdd([Cur EXCEPT !.arg = e], s, e), "add", s)

\* scope.add(listener) with a Listener made for it (the renderer's listener)
AddWatcher ==
  \E s \in ScopeIds :
    /\ ~hung /\ fx[s].made /\ ~Made(ListenerOrder[1])
    /\ Commit(ScopeAdd(NewListener([Cur EXCEPT !.arg = ListenerOrder[1]],
                                    ListenerOrder[1], 0, FALSE), s, ListenerOrder[1]),
              "add", s)

\* scope.destroy()
DestroyScope ==
  \E s \in ScopeIds :
    /\ ~hung /\ fx[s].made
    /\ Commit(ScopeDestroy(Cur, s), "destroyScope", s)

\* effect.destroy() or listener.destroy() called on a member directly
DestroyMember ==
  \/ \E e \in EffectIds :
       ~hung /\ fx[e].made /\ Commit(EffectDestroy(Cur, e), "destroy", e)
  \/ /\ ~hung /\ Made(ListenerOrder[1])
     /\ Commit(ListenerDestroy(Cur, ListenerOrder[1]), "destroy", ListenerOrder[1])

\* scope.onDestroyed(cleanup) with a user cleanup that returns
ScopeOnDestroyed ==
  \E s \in ScopeIds, c \in CleanupIds \ CleanupThrows :
    /\ ~hung /\ fx[s].made /\ given[c] = ""
    /\ Commit(EffectOnDestroyed([Cur EXCEPT !.given[c] = s], s, UserCleanup(c)),
              "onDestroyed", s)

\* scope.pause()
PauseScope ==
  \E s \in ScopeIds :
    /\ ~hung /\ fx[s].made
    /\ Commit(ScopePause([Cur EXCEPT !.arg = IF fx[s].pause THEN "paused" ELSE "running"], s),
              "pauseScope", s)

\* scope.unpause()
UnpauseScope ==
  \E s \in ScopeIds :
    /\ ~hung /\ fx[s].made
    /\ Commit(ScopeUnpause([Cur EXCEPT !.arg = IF fx[s].pause THEN "paused" ELSE "running"], s),
              "unpauseScope", s)

\* effect.pause() / effect.unpause() called on an Effect member directly
ToggleMember ==
  \E e \in EffectIds :
    /\ ~hung /\ fx[e].made
    /\ \/ Commit(EffectPause(Cur, e), "pause", e)
       \/ Commit(EffectUnpause(Cur, e), "unpause", e)

\* new WidgetRenderer(widget) for the root component
Construct ==
  \E h \in {"none", "tree"} :
    /\ ~hung /\ ~rd["w1"].made
    /\ Commit(RendererConstruct([Cur EXCEPT !.arg = h], "w1", h), "construct", "w1")

\* renderer.render(container)
Render(W) ==
  \E w \in W :
    /\ ~hung /\ rd[w].made
    /\ Commit(RendererRender([Cur EXCEPT !.arg = rd[w].state], w, ContainerOf[w]), "render", w)

\* renderer.mount()
Mount(W) ==
  \E w \in W :
    /\ ~hung /\ rd[w].made
    /\ Commit(RendererMount([Cur EXCEPT !.arg = rd[w].state], w), "mount", w)

\* renderer.update()
Update(W) ==
  \E w \in W :
    /\ ~hung /\ rd[w].made /\ Len(timers) < MaxTimers
    /\ Commit(RendererUpdate([Cur EXCEPT !.arg = rd[w].state], w, NoVNode), "update", w)

\* renderer.update(newChildVNode) on the root
UpdateWith ==
  \E n \in GivenIds :
    /\ ~hung /\ rd["w1"].made /\ Len(timers) < MaxTimers
    /\ Commit(RendererUpdate([Cur EXCEPT !.arg = n], "w1", Given(n)), "updateWith", "w1")

\* the page puts a node of its own first or last in the container of the
\* root or in the element of the root
HostInsert ==
  \E c \in {"c1", "c2"}, first \in BOOLEAN :
    /\ ~hung /\ dom[c] # <<>> /\ ~InSeq(HostNode[c], dom[c])
    /\ Commit([Cur EXCEPT !.arg = c,
                          !.dom[c] = IF first THEN <<HostNode[c]>> \o @
                                     ELSE Append(@, HostNode[c])],
              "hostInsert", c)

\* renderer.unmount()
Unmount(W) ==
  \E w \in W :
    /\ ~hung /\ rd[w].made
    /\ Commit(RendererUnmount([Cur EXCEPT !.arg = rd[w].state], w, TRUE), "unmount", w)

\* renderer.activate()
Activate(W) ==
  \E w \in W :
    /\ ~hung /\ rd[w].made /\ Len(timers) < MaxTimers
    /\ Commit(RendererActivate([Cur EXCEPT !.arg = rd[w].state], w, TRUE), "activate", w)

\* renderer.deactivate()
Deactivate(W) ==
  \E w \in W :
    /\ ~hung /\ rd[w].made /\ Len(timers) < MaxTimers
    /\ Commit(RendererDeactivate([Cur EXCEPT !.arg = rd[w].state], w, TRUE), "deactivate", w)

\* renderer.activate() on the root while the macrotasks of the deactivate()
\* before it, one for each component of the tree, may still wait
ActivateRoot ==
  /\ ~hung /\ rd["w1"].made /\ Len(timers) < MaxBacklog
  /\ Commit(RendererActivate([Cur EXCEPT !.arg = rd["w1"].state], "w1", TRUE), "activate", "w1")

\* the event loop runs the oldest macrotask: the microtasks have all run
Timer ==
  /\ ~hung /\ timers # <<>> /\ pending = 0
  /\ Commit(RunTimer([Cur EXCEPT !.timers = Tail(@), !.arg = Head(timers).k], Head(timers)),
            "timer", Head(timers).w)

\* a component tree through its life, with writes to the property it reads
\* ghost: the listener a call returned
Returned(st) == [st EXCEPT !.arg = st.handle]

\* watchDepend(fn, callback, options) with a plain function
Watch ==
  \E k \in FnIds :
    /\ ~hung /\ ~Made(MainOf[k])
    /\ Commit(Returned(WatchDepend(Cur, k)), "watch", k)

\* pause(), unpause() or destroy() on the listener watchDepend returned
UseHandle ==
  \E k \in FnIds, op \in {"pause", "unpause", "destroy"} :
    /\ ~hung /\ Made(MainOf[k])
    /\ Commit(IF op = "pause" THEN ListenerPause(Cur, MainOf[k])
              ELSE IF op = "unpause" THEN ListenerUnpause(Cur, MainOf[k])
              ELSE ListenerDestroy(Cur, MainOf[k]), op, MainOf[k])

\* functions being watched and their handles used
NextWatch == Watch \/ UseHandle
SpecWatch == Init /\ [][NextWatch]_vars


\* the listeners the next call makes
HasFree == \E i \in 1..Len(ArgPairs) : ~Made(ArgPairs[i].main) /\ ~Made(ArgPairs[i].sub)
Free ==
  ArgPairs[CHOOSE i \in 1..Len(ArgPairs) :
             /\ ~Made(ArgPairs[i].main) /\ ~Made(ArgPairs[i].sub)
             /\ \A j \in 1..(i - 1) : Made(ArgPairs[j].main) \/ Made(ArgPairs[j].sub)]

\* ghost: the length of a list argument
HowMany(q) == IF Len(q) = 0 THEN "none" ELSE IF Len(q) = 1 THEN "one" ELSE "several"

\* watch(origin, callback, {batch})
WatchAny ==
  \E a \in WatchInputs, batch \in BOOLEAN :
    /\ ~hung /\ HasFree
    /\ Commit(WatchCall([Cur EXCEPT !.arg = a], a, Free.main, Free.sub, batch), "watch", a)

\* watchProps(origin, props, callback, {batch})
WatchPropsAny ==
  \E o \in SourceInputs, props \in PropsInputs, batch \in BOOLEAN :
    /\ ~hung /\ HasFree
    /\ Commit(WatchProps([Cur EXCEPT !.arg = HowMany(props)], o, props, Free.main, Free.sub, batch),
              "watchProps", o)

\* Observers.registerProps(origin, props, callback, {batch})
RegisterPropsAny ==
  \E o \in SourceInputs, props \in PropsInputs, batch \in BOOLEAN :
    /\ ~hung /\ HasFree
    /\ Commit(RegisterProps([Cur EXCEPT !.arg = HowMany(props)], o, props, Free.main, batch),
              "registerProps", o)

\* Observers.registers(origins, callback, {batch})
RegistersAny ==
  \E os \in SourcesInputs, batch \in BOOLEAN :
    /\ ~hung /\ HasFree
    /\ Commit(Registers([Cur EXCEPT !.arg = HowMany(os)], os, Free.main, batch), "registers", "")

\* destroy() on a listener these calls returned
DestroyReturned ==
  \E i \in 1..Len(ArgPairs) :
    /\ ~hung /\ Made(ArgPairs[i].main)
    /\ Commit(ListenerDestroy(Cur, ArgPairs[i].main), "destroy", ArgPairs[i].main)

\* the registration calls with valid and invalid arguments
NextArgs == WatchAny \/ WatchPropsAny \/ RegisterPropsAny \/ RegistersAny \/ DestroyReturned
SpecArgs == Init /\ [][NextArgs]_vars


\* the calls of the renderer on every component of a tree, in any order
NextRenderer ==
  Construct \/ Render(WidgetIds) \/ Mount(WidgetIds) \/ Update(WidgetIds) \/ Unmount(WidgetIds)
    \/ Activate(WidgetIds) \/ Deactivate(WidgetIds) \/ Timer
SpecRenderer == Init /\ [][NextRenderer]_vars

\* a root component through its life, with writes to the source it reads
NextUpdates ==
  Construct \/ Render(Root) \/ Mount(Root) \/ Update(Root) \/ Activate(Root) \/ Deactivate(Root)
    \/ Timer \/ Write \/ Flush
SpecUpdates == Init /\ [][NextUpdates]_vars

\* a root component deactivated and activated again between the writes
NextReactivate ==
  Construct \/ Render(Root) \/ Mount(Root) \/ Deactivate(Root) \/ ActivateRoot \/ Timer \/ Write
    \/ Flush
SpecReactivate == Init /\ [][NextReactivate]_vars

\* patchAttrs(oldVNode, newVNode) on an element pair or on a component pair
PatchAttrsCall ==
  \E isWidget \in BOOLEAN :
    /\ ~attrs.done
    /\ Commit([Cur EXCEPT !.attrs = PatchAttrs(attrs, isWidget), !.arg = ""], "patchAttrs", "")

NextAttrs == PatchAttrsCall

PatchChildrenCall ==
  /\ ~childDiff.done
  /\ Commit([Cur EXCEPT !.childDiff = PatchChildren(childDiff), !.arg = ""], "patchChildren", "")
NextKids == PatchChildrenCall

\* the values reactive can be called with: the plain objects, the wrappers made
HeapValues == {Obj(i) : i \in ObjIds} \cup {Wrap(n) : n \in 1..heap.n}
\* the functions Depend.collect is called with: each reads properties of one
\* wrapper, in this order
ReadPlans == {<<"x">>, <<"y">>, <<"x", "y">>, <<"x", "x">>, <<"x", "y", "x", "y">>}
ReadsInputs ==
  {[i \in 1..Len(plan) |-> <<p, plan[i]>>] : p \in 1..heap.n, plan \in ReadPlans}
Reactive ==
  \E x \in HeapValues, deep \in BOOLEAN :
    /\ heap.n < MaxProxies
    /\ Commit([Cur EXCEPT !.heap = [ReactiveCall([heap EXCEPT !.reads = <<>>, !.deps = {}, !.trig = <<>>],
                                                 x, deep)
                                      EXCEPT !.call = <<"reactive", x>>],
                           !.arg = ""], "reactive", "")
Collect ==
  \E reads \in ReadsInputs :
    LET h == CollectReads([heap EXCEPT !.reads = <<>>, !.deps = {}, !.trig = <<>>], reads)
    IN /\ ~h.over
       /\ Commit([Cur EXCEPT !.heap = [h EXCEPT !.call = <<"collect", reads>>], !.arg = ""],
                 "collect", "")
NextHeap == Reactive \/ Collect
SpecAttrs == InitAttrs /\ [][NextAttrs]_vars
SpecKids == InitKids /\ [][NextKids]_vars
SpecHeap == InitHeap /\ [][NextHeap]_vars

NextPatch == Construct \/ Render(Root) \/ Mount(Root) \/ UpdateWith \/ HostInsert \/ Timer
SpecPatch == Init /\ [][NextPatch]_vars


\* scopes and members paused and resumed
NextPause ==
  \/ ScopeBegin \/ ScopeEnd \/ NewEffect \/ AddToScope \/ AddWatcher
  \/ PauseScope \/ UnpauseScope \/ ToggleMember
SpecPause == Init /\ [][NextPause]_vars

\* scopes, their members and the constructor stack
NextScope ==
  \/ ScopeBegin \/ ScopeEnd \/ NewEffect \/ AddToScope \/ AddWatcher
  \/ DestroyScope \/ DestroyMember \/ ScopeOnDestroyed
SpecScope == Init /\ [][NextScope]_vars

\* one Listener and its own methods
NextListener == CreateSolo \/ DirectTrigger \/ Pause \/ Unpause \/ Reset \/ Destroy \/ OnDestroyed
SpecListener == Init /\ [][NextListener]_vars

\* one Listener, its own methods, and its registration
NextRegistered == CreateSolo \/ Register \/ DirectTrigger \/ Pause \/ Unpause \/ Reset \/ Destroy
SpecRegistered == Init /\ [][NextRegistered]_vars

\* the registry: registrations, triggers and the microtask flush
NextObservers == RegisterNew \/ AddCallback \/ Trigger \/ Flush
SpecObservers == Init /\ [][NextObservers]_vars

\* writes through a reactive proxy
NextReactive == RegisterNew \/ Write \/ Flush
SpecReactive == Init /\ [][NextReactive]_vars
NextDelete == RegisterNew \/ Write \/ Delete \/ Flush
SpecDelete == Init /\ [][NextDelete]_vars

\* batched listeners on two sources, one bound to several keys, one that
\* triggers from its callback
NextFlush == RegisterBatched \/ Trigger \/ Flush
SpecFlush == Init /\ [][NextFlush]_vars

\* Observers.register(o1, listener, prop) with two batched listeners that
\* share a binding
SharedArgs ==
  [l \in {"q1", "q2"} |->
     IF l = "q1" THEN {"o1"} \X {"x", ALL_CHANGE_SYMBOL} ELSE {"o1"} \X {"x"}]
RegisterShared ==
  \E l \in DOMAIN SharedArgs : \E a \in SharedArgs[l] :
    /\ ~hung /\ ~ls[l].isDispose /\ ntrig = 0
    /\ ~InSeq(l, Lookup(bt, a[1], a[2]))
    /\ Commit(ObserversRegister(IF Made(l) THEN Cur ELSE NewListener(Cur, l, 0, FALSE),
                                a[1], l, a[2], TRUE), "register", l)

\* new Scope(() => {}): the constructor with a main that does nothing
OwnerScope == ScopeOrder[1]
NewScope ==
  /\ ~hung /\ ~fx[OwnerScope].made /\ ntrig = 0
  /\ Commit(ScopeLeave(ScopeEnter([Cur EXCEPT !.arg = currentScope], OwnerScope, FALSE)),
            "newScope", OwnerScope)

\* scope.add(listener) with a registered batched listener
Own ==
  \E l \in DOMAIN SharedArgs :
    /\ ~hung /\ fx[OwnerScope].made /\ Made(l) /\ ntrig = 0
    /\ ~InSeq(l, fx[OwnerScope].effects)
    /\ Commit(ScopeAdd([Cur EXCEPT !.arg = l], OwnerScope, l), "add", OwnerScope)

\* the bindings of batched listeners to a change in the queue of the pending
\* flush that st no longer has, with the call that removed them
Unbound(st, by) ==
  {b \in FlushIds \X Origins \X Keys \X {by} :
     /\ pending > 0 /\ \E i \in 1..Len(queue) : queue[i].o = b[2] /\ InSeq(b[3], queue[i].props)
     /\ InSeq(b[1], Lookup(bt, b[2], b[3])) /\ ~InSeq(b[1], Lookup(st.bt, b[2], b[3]))}
NoteCancelled(st, by) == [st EXCEPT !.cancelled = @ \cup Unbound(st, by)]

\* listener.destroy() on a batched listener
DestroyListener ==
  \E l \in DOMAIN SharedArgs :
    /\ ~hung /\ Made(l) /\ ~ls[l].isDispose
    /\ Commit(NoteCancelled(ListenerDestroy(Cur, l), "destroy"), "destroy", l)

\* scope.destroy() on the scope that owns batched listeners
DestroyOwner ==
  /\ ~hung /\ fx[OwnerScope].made /\ ~fx[OwnerScope].isDeprecated
  /\ Commit(NoteCancelled(ScopeDestroy(Cur, OwnerScope), "destroyScope"), "destroyScope", OwnerScope)

\* batched listeners destroyed, directly or with their scope, between the
\* triggers and the flush
NextCancel ==
  RegisterShared \/ NewScope \/ Own \/ Trigger \/ DestroyListener \/ DestroyOwner \/ Flush
SpecCancel == Init /\ [][NextCancel]_vars

\* the function addNotBatchCallback returned is called while the callback is
\* registered
RemoveCallback ==
  \E f \in CallbackIds, o \in Origins, prop \in Keys :
    /\ ~hung /\ InSeq(f, Lookup(nb, o, prop))
    /\ Commit(RemoveListener(Cur, "nb", o, prop, f), "removeCallback", f)

\* Observers.registerProps(o1, props, callback, {batch}) with one or two
\* properties
RegisterPropsSome ==
  \E props \in PropsInputs \ {<<>>}, batch \in BOOLEAN :
    /\ ~hung /\ HasFree
    /\ Commit(RegisterProps([Cur EXCEPT !.arg = HowMany(props)], "o1", props, Free.main, batch),
              "registerProps", "o1")

\* Observers.registers(origins, callback, {batch}) with one or two sources
RegistersSome ==
  \E os \in SourcesInputs \ {<<>>}, batch \in BOOLEAN :
    /\ ~hung /\ HasFree
    /\ Commit(Registers([Cur EXCEPT !.arg = HowMany(os)], os, Free.main, batch), "registers", "")

\* the registry tables under registrations of every kind and removals
NextTables ==
  RegisterNew \/ AddCallback \/ RemoveCallback \/ Destroy \/ RegisterPropsSome \/ RegistersSome
    \/ DestroyReturned
SpecTables == Init /\ [][NextTables]_vars

\* main() of the innermost running constructor throws; the exception is caught
\* in the body of an enclosing constructor or outside of all of them
ScopeThrow ==
  \E n \in 1..Len(stack) :
    /\ ~hung
    /\ Commit(ScopeThrown(Cur, n), "throwScope", stack[Len(stack) - n + 1].this)

\* nested scope constructors whose bodies create disposables and may throw
NextNesting == ScopeBegin \/ ScopeEnd \/ ScopeThrow \/ NewEffect
SpecNesting == Init /\ [][NextNesting]_vars

\* renderer.update() on the root, whose 'updated' hook calls update() again
UpdateAgain ==
  /\ ~hung /\ rd["w1"].made /\ Len(timers) < MaxTimers
  /\ Commit(Then(RendererUpdate([Cur EXCEPT !.arg = rd["w1"].state], "w1", NoVNode),
                 LAMBDA s1 : RendererUpdate(s1, "w1", NoVNode)), "updateAgain", "w1")

\* the root through its life, with updates asked for by writes, by the caller
\* and from inside an update
NextGuard == NextUpdates \/ UpdateAgain
SpecGuard == Init /\ [][NextGuard]_vars

\* the root and its nested components unmounted at any point, with writes to
\* the property the builds read
NextUnmount ==
  Construct \/ Render(Root) \/ Mount(Root) \/ Unmount(WidgetIds) \/ Write \/ Flush \/ Timer
SpecUnmount == Init /\ [][NextUnmount]_vars

\* Observers.register(origin, listener, prop, {batch}) with a Listener
\* instance in any state, disposed ones included
RegisterInstance ==
  \E origin \in Written, l \in ListenerIds, prop \in Keys, batch \in BOOLEAN :
    /\ ~hung /\ Made(l) /\ Len(ls[l].onD) < MaxRegs
    /\ Commit(ObserversRegister(Cur, origin, l, prop, batch), "register", l)

\* a Listener made by the caller, registered any number of times, triggered
\* and destroyed, by the caller or by its limit inside a trigger
NextLock == CreateSolo \/ RegisterInstance \/ Destroy \/ Trigger \/ Flush
SpecLock == Init /\ [][NextLock]_vars

\* proxy[prop] = newValue while the root is activated, with a value its
\* build() accepts
WriteActive ==
  \E o \in Written, prop \in Props, v \in Vals \ {"NaN"} :
    /\ ~hung /\ ntrig < MaxTrig /\ rd["w1"].state = "activated"
    /\ Commit(ReactiveSet([Cur EXCEPT !.arg = v], o, prop, v), "set", prop)

\* a mounted root and the writes to the source it reads, up to the states in
\* which no microtask and no macrotask is left
NextSettle == Construct \/ Render(Root) \/ Mount(Root) \/ WriteActive \/ Flush \/ Timer
SpecSettle == Init /\ [][NextSettle]_vars

\* watchDepend(fn, callback, {limit}) with a function that reads a property of
\* each of two sources
WatchLimited ==
  \E k \in LimitedFns :
    /\ ~hung /\ ~Made(MainOf[k])
    /\ Commit(Returned(WatchDepend(Cur, k)), "watch", k)

\* limited watchers and the turns that change what they read
NextLimit == WatchLimited \/ Trigger \/ Flush
SpecLimit == Init /\ [][NextLimit]_vars

\* new WidgetRenderer(widget) for a root whose build() reads o1.x and, while
\* o1.x is "v2", o1.y as well
ConstructAlt ==
  /\ ~hung /\ ~rd["w1"].made
  /\ Commit(RendererConstruct([Cur EXCEPT !.arg = "none", !.rd["w1"].alt = TRUE], "w1", "none"),
            "construct", "w1")

\* a root whose builds read different properties, and the writes to them
NextRebuild == ConstructAlt \/ Render(Root) \/ Mount(Root) \/ WriteActive \/ Flush \/ Timer
SpecRebuild == Init /\ [][NextRebuild]_vars

Spec == SpecObservers

\* ------------------------------------------------------------ properties
\* the callback invocations of entry e made by the last action
CallsTo(e) == {i \in 1..Len(calls) : calls[i].e = e}
\* a trigger call on listener l would reach its callback
Ready(l) ==
  /\ ls[l].made /\ ~ls[l].isDispose /\ ~ls[l].pause /\ ls[l].hasCb
  /\ (ls[l].limit = 0 \/ ls[l].count < ls[l].limit)

\* entry e is in some listener set of the table
InTable(t, e) == \E o \in Origins, k \in Keys : InSeq(e, Lookup(t, o, k))
\* an entry of a listener set whose invocation reaches user code
Invokable(e) == e \in CallbackIds \/ Ready(e)
Range(s) == {s[i] : i \in 1..Len(s)}
\* the properties Observers.trigger was called with for target o since the
\* pending flush was scheduled
TurnProps(o) ==
  UNION {Range(trigs[i].props) : i \in {j \in 1..Len(trigs) : trigs[j].o = o}}

\* C1: when the flush runs, every batched listener on the all-changes key of
\* a target that was registered before the turn's first trigger call, with
\* one or more trigger calls for real properties of that target in the turn,
\* is invoked exactly once by the flush, with a list holding every property
\* triggered in the turn exactly once; and no trigger call invokes a batched
\* listener.  (Turns that trigger the all-changes key itself are left out:
\* #triggerProps skips the all-changes listeners then.)
C1_BatchedOncePerTurn ==
  [][/\ (last'.op = "flush") =>
          \A o \in Origins, l \in ListenerIds :
            (/\ InSeq(l, Lookup(bt, o, ALL_CHANGE_SYMBOL))
             /\ Ready(l) /\ l \notin since
             /\ TurnProps(o) # {} /\ ALL_CHANGE_SYMBOL \notin TurnProps(o)) =>
              \E i \in 1..Len(calls') :
                /\ \A j \in 1..Len(calls') : calls'[j].e = l => j = i
                /\ calls'[i].e = l /\ calls'[i].o = o /\ calls'[i].ph = "flush"
                /\ Range(calls'[i].p) = TurnProps(o)
                /\ Len(calls'[i].p) = Cardinality(TurnProps(o))
     /\ (last'.op = "trigger") =>
          \A i \in 1..Len(calls') : ~InTable(bt, calls'[i].e)]_vars

\* two trigger calls for two properties in one turn, then the flush: one
\* invocation with both properties
C1_Witness ==
  /\ last.op = "flush"
  /\ \E i \in 1..Len(calls) :
       /\ calls[i].e \in ListenerIds /\ calls[i].ph = "flush"
       /\ calls[i].p \in {<<"x", "y">>, <<"y", "x">>}
       /\ ntrig = 2

C3_SameValueSilent ==
  [][\A o \in Written :
       (last'.op = "set" /\ StrictEq(Held(raw[o][last'.id]), last'.arg)) =>
         /\ ntrig' = ntrig /\ trigs' = trigs
         /\ pending' = pending /\ isHanding' = isHanding /\ queue' = queue
         /\ calls' = <<>> /\ fired' = fired
         /\ raw' = raw /\ last'.exc = "none"]_vars

\* the ref slot y was changed to v2 and flushed, then v2 was written again,
\* with a listener registered
C3_Witness ==
  /\ last.op = "set" /\ last.id = "y" /\ last.arg = "v2"
  /\ raw["o1"]["y"] = RefCell("v2")
  /\ ntrig = 1 /\ pending = 0 /\ calls = <<>>
  /\ \E l \in ListenerIds : InTable(bt, l) \/ InTable(nb, l)

\* C4: a listener created with limit L > 0 and never reset has had its
\* callback invoked at most L times; once it has been invoked L times the
\* listener is disposed; and a trigger call that leaves it disposed (the call
\* of the L-th invocation, and every later one) returned false.
C4_LimitBoundsInvocations ==
  \A l \in ListenerIds :
    (ls[l].made /\ ls[l].limit > 0 /\ ~wasReset[l]) =>
      /\ fired[l] <= ls[l].limit
      /\ ls[l].count = fired[l]
      /\ (fired[l] = ls[l].limit => ls[l].isDispose)
      /\ (last.op = "trigger" /\ last.id = l /\ ls[l].isDispose =>
            /\ ~last.ret
            /\ (last.was => calls = <<>>))

\* a listener of limit 2 fired twice, was disposed by that, and was triggered
\* once more without effect
C4_Witness ==
  \E l \in ListenerIds :
    /\ ls[l].limit = 2 /\ fired[l] = 2 /\ ~wasReset[l] /\ ls[l].isDispose
    /\ last.op = "trigger" /\ last.id = l /\ last.was /\ ~last.ret /\ calls = <<>>

\* C5: from a state in which listener l is disposed, no step of trigger,
\* pause, unpause, reset or destroy invokes its callback, changes its count or
\* clears the disposed flag, and a trigger step on it returns false.
C5_DisposedIsFinal ==
  [][\A l \in ListenerIds :
       ls[l].isDispose =>
         /\ ls'[l].isDispose
         /\ ls'[l].count = ls[l].count
         /\ fired'[l] = fired[l]
         /\ \A i \in 1..Len(calls') : calls'[i].e # l
         /\ (last'.op = "trigger" /\ last'.id = l => ~last'.ret)]_vars

\* an unlimited listener destroyed by destroy() after firing, then triggered
C5_Witness ==
  \E l \in ListenerIds :
    /\ ls[l].limit = 0 /\ ls[l].isDispose /\ fired[l] = 1 /\ ls[l].count = 1
    /\ last.op = "trigger" /\ last.id = l /\ last.was /\ ~last.ret

\* C6: a trigger step on a paused live listener invokes nothing, leaves the
\* count and both registries unchanged and returns true; a trigger step on a
\* live listener that is not paused invokes the callback once; and the value
\* any trigger step returns is "the listener is not disposed after the call".
C6_PauseKeepsRegistration ==
  [][\A l \in ListenerIds :
       (last'.op = "trigger" /\ last'.id = l) =>
         /\ (~ls[l].isDispose /\ ls[l].pause) =>
               /\ calls' = <<>>
               /\ ls'[l] = ls[l]
               /\ bt' = bt /\ nb' = nb
               /\ last'.ret
         /\ (~ls[l].isDispose /\ ~ls[l].pause) =>
               /\ Len(calls') = 1 /\ calls'[1].e = l
               /\ fired'[l] = fired[l] + 1
         /\ last'.ret = ~ls'[l].isDispose]_vars

\* a registered listener that has fired is paused and triggered: still
\* registered, nothing invoked, true returned
C6_Witness ==
  \E l \in ListenerIds :
    /\ Registered(l) /\ ls[l].pause /\ ~ls[l].isDispose /\ fired[l] = 1
    /\ last.op = "trigger" /\ last.id = l /\ last.ret /\ calls = <<>>

\* C7: a cleanup passed to onDestroyed of listener l has run once if l is
\* disposed and not at all if it is not, in every state (so it runs inside
\* onDestroyed when l is already disposed, at the first destroy otherwise,
\* and never again); and destroy never throws.
C7_CleanupRunsOnce ==
  /\ \A c \in CleanupIds :
        given[c] # "" => ran[c] = (IF ls[given[c]].isDispose THEN 1 ELSE 0)
  /\ \A c \in CleanupIds : given[c] = "" => ran[c] = 0
  /\ (last.op = "destroy" => last.exc = "none")

\* both cleanups (one of them throws) were passed to a listener, and destroy
\* was called again on the disposed listener
C7_Witness ==
  \E l \in ListenerIds :
    /\ \A c \in CleanupIds : given[c] = l /\ ran[c] = 1
    /\ last.op = "destroy" /\ last.id = l /\ last.was

\* the entries a trigger call for (o, prop) dispatches to
SyncTargets(o, prop) ==
  {e \in ListenerIds \cup CallbackIds :
     /\ InSeq(e, Lookup(nb, o, prop)) \/ InSeq(e, Lookup(nb, o, ALL_CHANGE_SYMBOL))
     /\ Invokable(e)}
\* the entries the flush of the current queue dispatches to
FlushTargets ==
  {e \in ListenerIds :
     /\ Ready(e)
     /\ \E k \in 1..Len(queue) :
          \/ \E prop \in Range(queue[k].props) : InSeq(e, Lookup(bt, queue[k].o, prop))
          \/ /\ ALL_CHANGE_SYMBOL \notin Range(queue[k].props)
             /\ InSeq(e, Lookup(bt, queue[k].o, ALL_CHANGE_SYMBOL))}

\* C8: a trigger call or a flush in which the callback of a Listener threw
\* completes without an exception, and every entry the dispatch is bound to
\* (Listeners and plain callbacks) was invoked in it.
C8_ThrowingCallbackIsolated ==
  [][(/\ last'.op \in {"trigger", "flush"}
      /\ \E i \in 1..Len(calls') : calls'[i].e \in ListenerIds /\ ls'[calls'[i].e].throws) =>
       /\ last'.exc = "none"
       /\ (last'.op = "trigger") =>
            \A e \in SyncTargets(last'.id, trigs'[Len(trigs')].props[1]) :
              \E i \in 1..Len(calls') : calls'[i].e = e
       /\ (last'.op = "flush") =>
            \A e \in FlushTargets : \E i \in 1..Len(calls') : calls'[i].e = e]_vars

\* a dispatch invoked a throwing listener first and another entry after it
C8_Witness ==
  /\ last.op \in {"trigger", "flush"} /\ last.exc = "none"
  /\ Len(calls) >= 2
  /\ calls[1].e \in ListenerIds /\ ls[calls[1].e].throws
  /\ calls[2].e # calls[1].e

\* get count
Count(s) == IF fx[s].hasSet THEN Len(fx[s].effects) ELSE 0
IsDestroyed(m) == IF m \in ListenerIds THEN ls[m].isDispose ELSE fx[m].isDeprecated
\* the members of scope s and of the scopes among them, recursively
RECURSIVE OwnedBy(_)
OwnedBy(s) ==
  Range(fx[s].effects) \cup UNION {OwnedBy(c) : c \in Range(fx[s].effects) \cap ScopeIds}

\* C9: destroy() on a live scope s calls destroy() exactly once on every
\* member s owns, the members of nested child scopes included, and on nothing
\* else; after it every such member is destroyed and s is deprecated with
\* its member set released.  destroy() on a deprecated scope calls destroy()
\* on nothing, runs no destroyed-callback, changes nothing and does not throw.
C9_ScopeDestroyCascades ==
  [][\A s \in ScopeIds :
       (last'.op = "destroyScope" /\ last'.id = s) =>
         /\ ~fx[s].isDeprecated =>
              /\ \A m \in OwnedBy(s) :
                   /\ Cardinality({i \in 1..Len(dcalls') : dcalls'[i].m = m}) = 1
                   /\ IsDestroyed(m)'
              /\ \A i \in 1..Len(dcalls') : dcalls'[i].m \in OwnedBy(s)
              /\ fx'[s].isDeprecated /\ Count(s)' = 0
              /\ \A c \in CleanupIds : given[c] = s => ran'[c] = 1
              /\ last'.exc = "none"
         /\ fx[s].isDeprecated =>
              /\ dcalls' = <<>> /\ ran' = ran
              /\ fx' = fx /\ ls' = ls
              /\ last'.exc = "none"]_vars

\* the destroy of a live scope reached a listener of its own, a child scope,
\* and an effect owned by the child scope
C9_Witness ==
  \E p \in ScopeIds, c \in ScopeIds, e \in EffectIds, l \in ListenerIds :
    /\ last.op = "destroyScope" /\ last.id = p /\ ~last.was
    /\ \E i \in 1..Len(dcalls) : dcalls[i] = [by |-> p, m |-> c]
    /\ \E i \in 1..Len(dcalls) : dcalls[i] = [by |-> c, m |-> e]
    /\ \E i \in 1..Len(dcalls) : dcalls[i] = [by |-> p, m |-> l]
    /\ Len(dcalls) = 3

\* C10: add(effect) on a deprecated scope returns false, leaves the count
\* of the scope 0 and leaves the effect as it was (not destroyed, no
\* destroyed-callback registered on it); the same holds when the add is made
\* by a constructor (AutoDisposed, Scope) running in a deprecated scope.
C10_DestroyedScopeRejectsAdd ==
  [][\A s \in ScopeIds :
       fx[s].isDeprecated =>
         /\ (last'.op = "add" /\ last'.id = s) =>
              /\ ~last'.ret /\ Count(s)' = 0 /\ fx' = fx
              /\ \A l \in ListenerIds :
                   last'.arg = l => ~ls'[l].isDispose /\ ls'[l].onD = <<>>
         /\ (last'.op \in {"newEffect", "newScope"} /\ last'.arg = s) =>
              /\ Count(s)' = 0
              /\ ~fx'[last'.id].isDeprecated /\ fx'[last'.id].onD = <<>>
              /\ (last'.op = "newEffect" => ~last'.ret)]_vars

\* a live effect was offered to a scope that had been destroyed: refused,
\* not destroyed, no callback on it
C10_Witness ==
  \E s \in ScopeIds, e \in EffectIds :
    /\ last.op = "add" /\ last.id = s /\ last.arg = e /\ last.was /\ ~last.ret
    /\ fx[s].isDeprecated /\ Count(s) = 0
    /\ fx[e].made /\ ~fx[e].isDeprecated /\ fx[e].onD = <<>>

IsPaused(m) == IF m \in ListenerIds THEN ls[m].pause ELSE fx[m].pause
\* the members a pause (want = FALSE) or unpause (want = TRUE) cascade of
\* scope s reaches: its members, and the members of those nested scopes
\* whose own call is not a repeated one
RECURSIVE Reached(_, _)
Reached(s, want) ==
  Range(fx[s].effects) \cup
  UNION {Reached(c, want) : c \in {z \in Range(fx[s].effects) \cap ScopeIds : fx[z].pause = want}}

\* C11: pause() on a running scope calls pause() once on every member and
\* leaves every member paused, and so for the members of nested scopes that
\* were running; unpause() on a paused scope does the same with unpause();
\* pause() on a paused scope and unpause() on a running one change nothing
\* (which is why a nested scope that was already paused is not descended
\* into); no pause or unpause call destroys a member or changes a member set.
C11_PauseCascades ==
  [][\A s \in ScopeIds :
       (last'.op \in {"pauseScope", "unpauseScope"} /\ last'.id = s) =>
         LET toPaused == last'.op = "pauseScope" IN
         /\ fx[s].pause # toPaused =>
              /\ \A m \in Reached(s, ~toPaused) :
                   /\ IsPaused(m)' = toPaused
                   /\ \E i \in 1..Len(pcalls') : pcalls'[i].m = m
              /\ \A m \in Range(fx[s].effects) :
                   Cardinality({i \in 1..Len(pcalls') : pcalls'[i] = [by |-> s, m |-> m]}) = 1
              /\ fx'[s].pause = toPaused
         /\ fx[s].pause = toPaused =>
              /\ fx' = fx /\ ls' = ls /\ pcalls' = <<>>
         /\ \A m \in EffectIds \cup ScopeIds \cup ListenerIds : IsDestroyed(m)' = IsDestroyed(m)
         /\ \A t \in ScopeIds :
              fx'[t].effects = fx[t].effects /\ fx'[t].hasSet = fx[t].hasSet
         /\ last'.exc = "none"]_vars

\* pause() on a running scope reached a listener of its own, a running
\* nested scope and an effect of the nested scope
C11_Witness ==
  \E p \in ScopeIds, c \in ScopeIds, e \in EffectIds, l \in ListenerIds :
    /\ last.op = "pauseScope" /\ last.id = p /\ last.arg = "running"
    /\ \E i \in 1..Len(pcalls) : pcalls[i] = [by |-> p, m |-> c]
    /\ \E i \in 1..Len(pcalls) : pcalls[i] = [by |-> c, m |-> e]
    /\ \E i \in 1..Len(pcalls) : pcalls[i] = [by |-> p, m |-> l]
    /\ fx[c].pause /\ fx[e].pause /\ ls[l].pause
    /\ InSeq(c, fx[p].effects) /\ InSeq(e, fx[c].effects) /\ InSeq(l, fx[p].effects)
\* ------------------------------------------------------------ C13
\* listener sub is notified of the changes of property prop of origin
BoundTo(sub, origin, prop) ==
  LET o == GetObserveTarget(origin) IN
  \/ InSeq(sub, Lookup(bt, o, prop))
  \/ InSeq(sub, Lookup(nb, o, prop))
  \/ InSeq(DebouncedOf[sub], Lookup(nb, o, ALL_CHANGE_SYMBOL))
\* the listener watchDepend returned for k is reached from sub
Forwards(k) ==
  /\ ls[MainOf[k]].made /\ ~ls[MainOf[k]].isDispose /\ ls[MainOf[k]].hasCb
  /\ ls[SubOf[k]].made /\ ~ls[SubOf[k]].isDispose /\ ls[SubOf[k]].hasCb
  /\ WatchBatch[k] => InSeq(MainOf[k], Lookup(bt, DepsOf[k], ALL_CHANGE_SYMBOL))

\* ------------------------------------------------------------ C12
\* what a component did in the last action
Builds(w) == Cardinality({i \in 1..Len(hooks) : hooks[i].w = w /\ hooks[i].h = "build"})
Patches(w) == Cardinality({i \in 1..Len(hooks) : hooks[i].w = w /\ hooks[i].h = "patch"})
\* the flush about to run delivers, to the listener that calls update, the
\* change a turn made to a property the component's build() read
Delivers(w) == pending > 0 /\ \E i \in 1..Len(queue) : queue[i].o = DepsOf[w]
BuildReads(w, o, prop) ==
  \E i \in 1..Len(Reads[w]) : Reads[w][i].o = o /\ InSeq(prop, Reads[w][i].props)

\* C12: for an activated component whose build() reads one tracked property
\* p (w1 reads o1.x, and the value is one build() accepts): a turn that wrote
\* p to a different value makes the flush that delivers the change perform
\* exactly one update, one build() and one patch, and writes and flushes that
\* deliver nothing to it, as for the other properties of o1, perform none.
C12_OneUpdatePerChange ==
  [][(/\ last'.op \in {"set", "flush"}
      /\ rd["w1"].state = "activated"
      /\ ReadValue(Cur, "w1") # "NaN") =>
        LET n == IF last'.op = "flush" /\ Delivers("w1") THEN 1 ELSE 0 IN
        /\ Builds("w1")' = n
        /\ Patches("w1")' = n
        /\ (last'.op = "set" /\ last'.ret /\ BuildReads("w1", "o1", last'.id)
              /\ raw'["o1"] # raw["o1"]) => pending' > 0]_vars

\* C13: watchDepend(fn) runs fn exactly once; when fn read no tracked
\* property no listener is created or registered and no handle is returned;
\* when it read some, the handle is a live listener that is bound to every
\* (source, property) pair read.
C13_WatchDependBinds ==
  [][\A k \in FnIds :
       (last'.op = "watch" /\ last'.id = k) =>
         /\ Cardinality(CallsTo(k))' = 1
         /\ Reads[k] = <<>> =>
              /\ bt' = bt /\ nb' = nb /\ ls' = ls
              /\ last'.arg = ""
         /\ Reads[k] # <<>> =>
              /\ last'.arg = MainOf[k]
              /\ Forwards(k)'
              /\ \A i \in 1..Len(Reads[k]) :
                   \A j \in 1..Len(Reads[k][i].props) :
                     BoundTo(SubOf[k], Reads[k][i].o, Reads[k][i].props[j])'
         /\ last'.exc = "none"]_vars

\* a function that read properties of two sources and one that read two
\* properties of one source are watched, and one that read nothing
C13_Witness ==
  /\ last.op = "watch"
  /\ Forwards("g2") /\ BoundTo("ug2", "o2", "x")
  /\ Forwards("g3") /\ BoundTo("ug3", "o1", "y")
  /\ \E i \in 1..Len(calls) : calls[i].e = "g0"

\* ------------------------------------------------------------ C14
\* C14: invalid arguments are rejected with a TypeError and leave the
\* registry and the listeners unchanged: watch with an empty list, a list with
\* an element that is not reactive, an object that is not reactive, a getter
\* returning a primitive that does not resolve to exactly one (object,
\* property) dependency; watchProps with an empty property list or a source
\* that is not reactive; registerProps with an empty property list or a
\* source that is not an object; registers with an empty source list.
C14_InvalidArgumentsRejected ==
  [][(\/ /\ last'.op = "watch"
         /\ last'.id \in {"emptyList", "mixedList", "plainObject", "getterNoDep",
                           "getterTwoProps", "getterTwoSources"}
      \/ /\ last'.op = "watchProps"
         /\ last'.arg = "none" \/ last'.id \in {"plain", "prim"}
      \/ /\ last'.op = "registerProps"
         /\ last'.arg = "none" \/ last'.id = "prim"
      \/ /\ last'.op = "registers"
         /\ last'.arg = "none") =>
        /\ last'.exc = "throw"
        /\ bt' = bt /\ nb' = nb /\ ls' = ls /\ queue' = queue /\ pending' = pending]_vars

\* a call with valid arguments bound a listener, and a call with an empty
\* property list was rejected after it
C14_Witness ==
  /\ last.op \in {"watchProps", "registerProps"} /\ last.arg = "none" /\ last.exc = "throw"
  /\ last.id = "o1"
  /\ ls["am"].made /\ ~ls["am"].isDispose
  /\ \E o \in DOMAIN bt : \E k \in DOMAIN bt[o] : InSeq("am", bt[o][k])

\* ------------------------------------------------------------ C15
\* the assignments to _state of w in the last action, in order
StateChanges(w) == SelectSeq(hooks, LAMBDA e : e.w = w /\ e.h = "state")
\* the method of the renderer that takes each edge
EdgeMethod ==
  [e \in {<<"notRendered", "notMounted">>} |-> "render"]
    @@ [e \in {<<"notMounted", "activated">>} |-> "mount"]
    @@ [e \in {<<"activated", "deactivate">>} |-> "deactivate"]
    @@ [e \in {<<"deactivate", "activated">>} |-> "activate"]
    @@ [e \in {"notRendered", "notMounted", "activated", "deactivate"} \X {"uninstalling"}
          |-> "unmount"]
    @@ [e \in {<<"uninstalling", "unloaded">>} |-> "unmount"]
\* every state change of the last action is one of the edges, taken by the
\* edge's method when the call was made on that renderer, and a renderer
\* that was unloaded stays so
FollowsEdges(edges) ==
  \A w \in WidgetIds :
    LET ch == StateChanges(w)' IN
    /\ \A i \in 1..Len(ch) :
         /\ <<ch[i].a, ch[i].b>> \in edges
         /\ last'.id = w => last'.op = EdgeMethod[<<ch[i].a, ch[i].b>>]
         /\ ch[i].a = IF i = 1 THEN rd[w].state ELSE ch[i - 1].b
    /\ rd'[w].state = IF ch = <<>> THEN rd[w].state ELSE ch[Len(ch)].b
    /\ rd[w].state = "unloaded" => ch = <<>>

\* C15 as stated: every change of a renderer's state follows one of the edges
\* notRendered->notMounted (render), notMounted->activated (mount),
\* activated->deactivate (deactivate), deactivate->activated (activate),
\* activated|deactivate->uninstalling->unloaded (unmount), and unloaded is
\* never left.
C15_EdgesAsStated ==
  [][FollowsEdges(DOMAIN EdgeMethod
                    \ ({"notRendered", "notMounted"} \X {"uninstalling"}))]_vars

\* C15 amended: as stated, with unmount also taking a renderer that is
\* notRendered or notMounted to uninstalling and then unloaded.
C15_StateEdges == [][FollowsEdges(DOMAIN EdgeMethod)]_vars

\* a component was unmounted before it was mounted, and its nested components
\* were unloaded with it
C15_Witness ==
  /\ last.op = "unmount" /\ last.id = "w1" /\ last.arg = "notMounted"
  /\ \A w \in WidgetIds : rd[w].state = "unloaded" /\ Len(StateChanges(w)) = 2

\* ------------------------------------------------------------ C16
\* C16: update() on a renderer that is unloaded or deactivate, and unmount()
\* on one that is unloaded, do nothing: no lifecycle hook fires, build() is
\* not called, the state, the retained child description and the
\* pending-update flag of every renderer are unchanged, no timer is set, the
\* backend nodes stay where they are and nothing is thrown.
C16_MisuseIsNoOp ==
  [][(\/ last'.op = "update" /\ last'.arg \in {"unloaded", "deactivate"}
      \/ last'.op = "unmount" /\ last'.arg = "unloaded") =>
        /\ hooks' = <<>>
        /\ rd' = rd /\ timers' = timers /\ dom' = dom /\ fx' = fx
        /\ last'.exc = "none"]_vars

\* update() was called on a deactivated component with no update pending
C16_Witness ==
  /\ last.op = "update" /\ last.arg = "deactivate"
  /\ rd[last.id].state = "deactivate" /\ ~rd[last.id].pendingUpdate

\* ------------------------------------------------------------ C17
\* what activate() on the deactivated root does when build() accepts the
\* value it reads
ActivateUpdatesOnce ==
  (/\ last'.op = "activate" /\ last'.id = "w1" /\ last'.arg = "deactivate"
   /\ ReadValue(Cur, "w1") # "NaN") =>
     /\ Builds("w1")' = 1 /\ Patches("w1")' = 1
     /\ rd'["w1"].child.v = ReadValue(Cur, "w1")
     /\ last'.exc = "none"
\* no write, flush or timer makes a deactivated root build or patch
QuietWhileDeactivated ==
  (rd["w1"].state = "deactivate" /\ last'.op \in {"set", "flush", "timer"}) =>
     Builds("w1")' = 0 /\ Patches("w1")' = 0

\* C17: after deactivate() on an activated component, writes to the property
\* its build() reads cause no build() and no patch while it stays
\* deactivated, and the activate() that follows performs exactly one update,
\* one build() and one patch, whose result shows the value last written.
C17_ActivateCatchesUp == [][QuietWhileDeactivated /\ ActivateUpdatesOnce]_vars

\* ------------------------------------------------------------ C18
\* the component instances a description leads to through the children of
\* its element and fragment nodes
RECURSIVE InstancesIn(_)
InstancesIn(vnode) ==
  IF vnode.w # "" /\ rd[vnode.w].made THEN {vnode.w}
  ELSE UNION {InstancesIn(vnode.kids[i]) : i \in 1..Len(vnode.kids)}
\* the descendants of w the toggle reaches: the instances in its child tree
\* that are in state from, and those each of them reaches in turn
RECURSIVE Toggled(_, _)
Toggled(w, from) ==
  LET d == {v \in InstancesIn(rd[w].child) : rd[v].state = from}
  IN d \cup UNION {Toggled(v, from) : v \in d}
\* the call took w and the descendants it reaches from one state to the
\* other, and left every other component in its state
TogglesSubtree(w, from, to) ==
  /\ rd'[w].state = to
  /\ \A v \in WidgetIds \ {w} :
       rd'[v].state = IF v \in Toggled(w, from) THEN to ELSE rd[v].state

\* C18: deactivate() on an activated component puts every descendant
\* component instance its child tree leads to, through element and fragment
\* children at any depth and through the descendants so reached, into state
\* deactivate, and activate() on a deactivated one puts them back into state
\* activated; a descendant that is not in the state the call starts from is
\* left unchanged, and so is every other component.
C18_ToggleCascades ==
  [][\A w \in WidgetIds :
       /\ (last'.op = "deactivate" /\ last'.id = w /\ last'.arg = "activated") =>
            TogglesSubtree(w, "activated", "deactivate")
       /\ (last'.op = "activate" /\ last'.id = w /\ last'.arg = "deactivate") =>
            TogglesSubtree(w, "deactivate", "activated")]_vars

\* activate() on the root brought back both nested components, the inner one
\* through the outer one
C18_Witness ==
  /\ last.op = "activate" /\ last.id = "w1" /\ last.arg = "deactivate"
  /\ \A w \in WidgetIds :
       /\ rd[w].state = "activated"
       /\ \E i \in 1..Len(hooks) :
            hooks[i] = [w |-> w, h |-> "state", a |-> "deactivate", b |-> "activated"]

\* ------------------------------------------------------------ C19
\* how often a hook of w fired in the last action
Fired(w, h) == Cardinality({i \in 1..Len(hooks) : hooks[i].w = w /\ hooks[i].h = h})

\* C19: when build() throws during update(), the error hook is called once;
\* if it returns a tree description, that description is patched against the
\* retained one, and on a rendered component it becomes the tree shown; if it
\* returns none, the exception reaches the caller of
\* update(), the retained child description is unchanged, 'updated' does not
\* fire and the pending-update flag is clear when the exception leaves.
C19_BuildErrorInUpdate ==
  [][(/\ last'.op = "update" /\ last'.id = "w1"
      /\ last'.arg \notin {"unloaded", "deactivate"} /\ ~rd["w1"].pendingUpdate
      /\ ReadValue(Cur, "w1") = "NaN") =>
        /\ Fired("w1", "build")' = 1 /\ Fired("w1", "error")' = 1
        /\ rd["w1"].onError = "tree" =>
             /\ Fired("w1", "patch")' = 1
             /\ rd["w1"].child.el # "" =>
                  /\ rd'["w1"].child.v = ErrTree("").v
                  /\ rd'["w1"].child.el = rd["w1"].child.el
                  /\ Fired("w1", "updated")' = 1
                  /\ last'.exc = "none"
        /\ rd["w1"].onError = "none" =>
             /\ last'.exc = "throw"
             /\ rd'["w1"].child = rd["w1"].child
             /\ Fired("w1", "patch")' = 0 /\ Fired("w1", "updated")' = 0
             /\ ~rd'["w1"].pendingUpdate]_vars

\* build() threw in update() on a mounted component whose error hook returns
\* nothing: the exception left update() and the flag is clear
C19_Witness ==
  /\ last.op = "update" /\ last.id = "w1" /\ last.arg = "activated"
  /\ rd["w1"].onError = "none" /\ ReadValue(Cur, "w1") = "NaN"
  /\ last.exc = "throw" /\ ~rd["w1"].pendingUpdate
  /\ Fired("w1", "error") = 1

\* ------------------------------------------------------------ C20
\* vnode.el before and after the step
ElBefore(vnode) == IF vnode.w # "" /\ rd[vnode.w].made THEN rd[vnode.w].child.el ELSE vnode.el
ElAfter(vnode) == IF vnode.w # "" /\ rd'[vnode.w].made THEN rd'[vnode.w].child.el ELSE vnode.el
ParentBefore(el) ==
  IF \E c \in Containers : InSeq(el, dom[c]) THEN CHOOSE c \in Containers : InSeq(el, dom[c])
  ELSE ""
\* the component instances a description holds before the step, at any depth
RECURSIVE Holds(_)
Holds(vnode) ==
  IF vnode.w # "" /\ rd[vnode.w].made THEN {vnode.w} \cup Holds(rd[vnode.w].child)
  ELSE UNION {Holds(vnode.kids[i]) : i \in 1..Len(vnode.kids)}
\* the component nodes of a description
RECURSIVE Names(_)
Names(vnode) ==
  IF vnode.w # "" THEN {vnode.w}
  ELSE UNION {Names(vnode.kids[i]) : i \in 1..Len(vnode.kids)}
Differ(old, new) == old.type # new.type \/ old.key # new.key
FiredNow(w, h) == \E i \in 1..Len(hooks') : hooks'[i].w = w /\ hooks'[i].h = h
\* new was rendered and is what the call returned, old was unmounted and new
\* mounted
Swapped(old, new, res) ==
  /\ last'.exc = "none"
  /\ res.id = new.id /\ res.type = new.type /\ res.key = new.key
  /\ ElAfter(res) # "" /\ ElAfter(res) # ElBefore(old)
  /\ \A c \in Containers : ~InSeq(ElBefore(old), dom'[c])
  /\ \A w \in Holds(old) : rd'[w].state = "unloaded" /\ FiredNow(w, "unmounted")
  /\ \A w \in Names(new) : rd'[w].state = "activated" /\ FiredNow(w, "mounted")
\* the backend node of new is where the one of old was
InPlace(old, res) ==
  dom'[ParentBefore(ElBefore(old))] =
    ReplaceChild(dom[ParentBefore(ElBefore(old))], ElAfter(res), ElBefore(old))
\* the call returned old, with its backend node where it was
Kept(old, res) ==
  /\ res.id = old.id /\ res.type = old.type /\ res.key = old.key
  /\ ElAfter(res) = ElBefore(old)
  /\ ParentBefore(ElBefore(old)) # "" =>
       InSeq(ElBefore(old), dom'[ParentBefore(ElBefore(old))])
\* what patchUpdate(old, new) did, res being the description retained in the
\* place of old: a pair of another type or key, with old under a parent, was
\* swapped in place; a pair of the same type and key was kept, and so on for
\* the children of a kept element pair by pair
RECURSIVE PatchedAsStated(_, _, _)
PatchedAsStated(old, new, res) ==
  IF Differ(old, new)
  THEN ParentBefore(ElBefore(old)) # "" => Swapped(old, new, res) /\ InPlace(old, res)
  ELSE /\ Kept(old, res)
       /\ old.w = "" =>
            \A i \in 1..Len(old.kids) :
              PatchedAsStated(old.kids[i], new.kids[i], res.kids[i])
\* update(newChildVNode) on the root reached patchUpdate
PatchStep ==
  /\ last'.op = "updateWith"
  /\ rd["w1"].state \notin {"unloaded", "deactivate"} /\ ~rd["w1"].pendingUpdate
NoDiffOfReplaced == \A i \in 1..Len(hooks') : hooks'[i].b # "differ"

\* C20: patchUpdate(old, new) on a pair whose type or key differ, old being
\* under a parent, diffs neither attributes nor children: it renders new,
\* puts the backend node of new where the one of old was under the parent of
\* old, unmounts old, mounts new and returns new; on a pair of the same type
\* and key it returns old, which keeps its backend node.
C20_ReplaceOrKeep ==
  [][PatchStep =>
       /\ NoDiffOfReplaced
       /\ PatchedAsStated(rd["w1"].child, Given(last'.arg), rd'["w1"].child)]_vars

\* ------------------------------------------------------------ C21
Removes(k) == Cardinality({i \in 1..Len(attrs.calls) : attrs.calls[i] = [op |-> "remove", k |-> k, v |-> PropGet(attrs.was, k)]})
Sets(k) ==
  Cardinality({i \in 1..Len(attrs.calls) :
                 attrs.calls[i] = [op |-> "set", k |-> k, v |-> PropGet(attrs.new, k)]})
CallsOn(k) == Cardinality({i \in 1..Len(attrs.calls) : attrs.calls[i].k = k})
OnElement == attrs.done /\ ~attrs.widget

\* C21 as stated: one remove for each key old has and new has not, one set
\* for each key old has not or holds another value for, no call for a key
\* with the same value in both, and afterwards the retained props have the
\* keys and the values of new.
C21_DiffByKeys ==
  OnElement =>
    /\ \A k \in AttrKeySet :
         /\ Removes(k) = IF HasKey(attrs.was, k) /\ ~HasKey(attrs.new, k) THEN 1 ELSE 0
         /\ Sets(k) = IF /\ HasKey(attrs.new, k)
                         /\ \/ ~HasKey(attrs.was, k)
                            \/ ~StrictEq(PropGet(attrs.was, k), PropGet(attrs.new, k))
                      THEN 1 ELSE 0
         /\ CallsOn(k) = Removes(k) + Sets(k)
    /\ Range(KeysOf(attrs.old)) = Range(KeysOf(attrs.new))
    /\ \A k \in AttrKeySet : PropGet(attrs.old, k) = PropGet(attrs.new, k)

\* C21: on an element pair of the same type and key the attribute diff makes
\* one backend remove for each key old has and new has not, one backend set
\* for each key of new whose value is not === to what old holds for it,
\* which is undefined for a key old has not, and no other backend call;
\* afterwards the retained props hold, for every key of new, the value of new,
\* and no key that new has not: the keys of new they lack are those old had
\* not and new holds undefined for.
C21_DiffByValues ==
  OnElement =>
    /\ \A k \in AttrKeySet :
         /\ Removes(k) = IF HasKey(attrs.was, k) /\ ~HasKey(attrs.new, k) THEN 1 ELSE 0
         /\ Sets(k) = IF /\ HasKey(attrs.new, k)
                         /\ ~StrictEq(PropGet(attrs.was, k), PropGet(attrs.new, k))
                      THEN 1 ELSE 0
         /\ CallsOn(k) = Removes(k) + Sets(k)
         /\ HasKey(attrs.old, k) <=>
              /\ HasKey(attrs.new, k)
              /\ HasKey(attrs.was, k) \/ PropGet(attrs.new, k) # "undef"
    /\ \A k \in AttrKeySet : PropGet(attrs.old, k) = PropGet(attrs.new, k)

\* the diff of {a: v1, b: v2} against {a: v1, c: v2}: b removed, c set, a untouched
C21_Witness ==
  /\ OnElement
  /\ attrs.was = <<[k |-> "a", v |-> "v1"], [k |-> "b", v |-> "v2"]>>
  /\ attrs.new = <<[k |-> "a", v |-> "v1"], [k |-> "c", v |-> "v2"]>>
  /\ Removes("b") = 1 /\ Sets("c") = 1 /\ CallsOn("a") = 0
  /\ attrs.old = <<[k |-> "a", v |-> "v1"], [k |-> "c", v |-> "v2"]>>


\* ------------------------------------------------------------ C22
\* the node the entry of new at index i has once the diff is done: the node
\* of the old entry of that index where both are present and of one kind and
\* type, its own node otherwise
KidNode(i) ==
  LET o == At(childDiff.was, i)
      n == childDiff.new[i]
  IN IF Truthy(o) /\ o.kind = n.kind /\ o.type = n.type THEN o.id ELSE n.id
KidsExpected ==
  LET all == [i \in 1..Len(childDiff.new) |-> [c |-> childDiff.new[i], id |-> KidNode(i)]]
      there == SelectSeq(all, LAMBDA e : Truthy(e.c))
  IN [j \in 1..Len(there) |-> there[j].id]
KidLogged(op, id) ==
  \E j \in 1..Len(childDiff.log) :
    childDiff.log[j].op = op /\ (childDiff.log[j].o = id \/ childDiff.log[j].n = id)

\* C22: once patchChildren has run on any old and new children lists, the
\* present entries of the retained list and the child nodes of the parent are
\* those of new's present entries in new's order (the old node where the two
\* entries of an index are of one type), an entry only old has is unmounted,
\* and every comparison made is between the two entries of one index
C22_PositionalDiff ==
  childDiff.done =>
    /\ childDiff.exc = "none"
    /\ IdsOf(Present(childDiff.old)) = KidsExpected
    /\ childDiff.nodes = KidsExpected
    /\ \A i \in 1..Len(childDiff.was) :
         Truthy(childDiff.was[i]) /\ ~Truthy(At(childDiff.new, i))
           => KidLogged("unmount", childDiff.was[i].id)
    /\ \A j \in 1..Len(childDiff.log) :
         childDiff.log[j].o # <<>> /\ childDiff.log[j].n # <<>>
           => childDiff.log[j].o[2] = childDiff.log[j].n[2]


\* ------------------------------------------------------------ C23
\* C23: reactive called with a wrapper returns that wrapper, whose raw target
\* unReactive gives is not a wrapper; no wrapper has a wrapper as raw target
C23_SameWrapper ==
  /\ \A p \in 1..heap.n : ~IsWrap(heap.tgt[p])
  /\ heap.call # <<>> /\ heap.call[1] = "reactive" /\ IsWrap(heap.call[2])
       => /\ heap.ret = heap.call[2]
          /\ UnReactive(heap, heap.ret) = UnReactive(heap, heap.call[2])
          /\ ~IsWrap(UnReactive(heap, heap.ret))


\* ------------------------------------------------------------ C25
Collected == heap.call # <<>> /\ heap.call[1] = "collect"
ReadPairs(P(_)) ==
  {<<heap.reads[j].p, heap.reads[j].prop>> : j \in {i \in 1..Len(heap.reads) : P(heap.reads[i])}}
NotLazy(r) == ~r.lazy
NotWrapped(r) == ~r.lazy /\ ~IsWrap(r.value)

C24_DeleteTriggersIfExisted ==
  [][\A o \in Written :
       last'.op = "delete" =>
         IF raw[o][last'.id].has
         THEN /\ ntrig' = ntrig + 1
              /\ trigs'[Len(trigs')] = [o |-> o, props |-> <<last'.id>>]
              /\ ~raw'[o][last'.id].has
         ELSE /\ ntrig' = ntrig /\ trigs' = trigs
              /\ pending' = pending /\ isHanding' = isHanding /\ queue' = queue
              /\ calls' = <<>> /\ fired' = fired
              /\ raw' = raw]_vars


\* ------------------------------------------------------------ C26
\* C26: at most one flush is scheduled and not started, and a trigger call
\* made while one is pending schedules none, in a turn or from a listener
\* the flush invokes
C26_OneFlushPending ==
  [][/\ pending' \in {0, 1}
     /\ (last'.op = "trigger" /\ pending = 1) => pending' = 1
     /\ (last'.op = "flush") => pending' = IF trigs' = <<>> THEN 0 ELSE 1]_vars

\* a flush in which listeners called trigger twice has left one flush pending
C26_Witness == last.op = "flush" /\ Len(trigs) = 2 /\ pending = 1 /\ isHanding

\* ------------------------------------------------------------ C27
\* the queue has property p for source o
Queued(q, o, p) == \E i \in 1..Len(q) : q[i].o = o /\ InSeq(p, q[i].props)
QueuedList(q, o, p) == \E i \in 1..Len(q) : q[i].o = o /\ Range(p) \subseteq Range(q[i].props)
\* l was invoked for source o with the list p
Delivered(c, l, o, p) == \E i \in 1..Len(c) : c[i].e = l /\ c[i].o = o /\ c[i].p = p

\* C27: a flush delivers the changes that were queued when it began and only
\* those: what a listener triggers during the flush is not delivered by it,
\* is queued anew and has exactly one flush scheduled for it; every change
\* queued for the flush was triggered since the flush before began, every
\* change triggered since then on a source with listeners is queued, and
\* each reaches every listener bound to it
C27_FreshQueuePerFlush ==
  [][(last'.op = "flush") =>
       /\ \A i \in 1..Len(calls') : QueuedList(queue, calls'[i].o, calls'[i].p)
       /\ \A i \in 1..Len(queue) : \A j \in 1..Len(queue[i].props) :
            /\ \E t \in 1..Len(trigs) :
                 trigs[t].o = queue[i].o /\ InSeq(queue[i].props[j], trigs[t].props)
            /\ \A l \in FlushIds :
                 InSeq(l, Lookup(bt, queue[i].o, queue[i].props[j]))
                   => Delivered(calls', l, queue[i].o, <<queue[i].props[j]>>)
       /\ \A t \in 1..Len(trigs) : \A j \in 1..Len(trigs[t].props) :
            trigs[t].o \in DOMAIN bt => Queued(queue, trigs[t].o, trigs[t].props[j])
       /\ trigs' # <<>> =>
            /\ pending' = 1
            /\ \A t \in 1..Len(trigs') : \A j \in 1..Len(trigs'[t].props) :
                 trigs'[t].o \in DOMAIN bt' => Queued(queue', trigs'[t].o, trigs'[t].props[j])
            /\ \A i \in 1..Len(queue') : \A j \in 1..Len(queue'[i].props) :
                 \E t \in 1..Len(trigs') :
                   trigs'[t].o = queue'[i].o /\ InSeq(queue'[i].props[j], trigs'[t].props)]_vars

\* a flush for x of o1 invoked the listener that triggers y of o2: y is
\* queued for the next flush and the listener of o2 was not invoked
C27_Witness ==
  /\ last.op = "flush" /\ pending = 1
  /\ queue = <<[o |-> "o2", props |-> <<"y">>]>>
  /\ \E i \in 1..Len(calls) : calls[i].e = "rw" /\ calls[i].o = "o1"
  /\ InSeq("q2", Lookup(bt, "o2", ALL_CHANGE_SYMBOL))
  /\ \A i \in 1..Len(calls) : calls[i].e # "q2"


\* ------------------------------------------------------------ C28
\* the keys of source o listener l is bound to, the invocations of l for o
BoundKeys(l, o) == {k \in Keys : InSeq(l, Lookup(bt, o, k))}
CallsFor(c, l, o) == {i \in 1..Len(c) : c[i].e = l /\ c[i].o = o}
\* the all-changes listeners of each source are invoked once per flush that
\* has changes of the source, after its per-property listeners, with the
\* full list when the all-changes key is not itself among the changes
AllKeyOnceAndLast ==
  [][(last'.op = "flush") =>
       \A i \in 1..Len(queue) : \A l \in FlushIds :
         BoundKeys(l, queue[i].o) = {ALL_CHANGE_SYMBOL} =>
           /\ Cardinality(CallsFor(calls', l, queue[i].o)) = 1
           /\ ~InSeq(ALL_CHANGE_SYMBOL, queue[i].props) =>
                \A c \in CallsFor(calls', l, queue[i].o) :
                  /\ calls'[c].p = queue[i].props
                  /\ \A d \in 1..Len(calls') :
                       (calls'[d].o = queue[i].o /\ calls'[d].e # l
                        /\ ALL_CHANGE_SYMBOL \notin BoundKeys(calls'[d].e, queue[i].o))
                         => d < c]_vars

\* C28: in a flush, a batched listener bound to one or more of the changed
\* properties of a source (and not to its all-changes key) is invoked once
\* for that source; a listener bound to the all-changes key is invoked once,
\* after the per-property listeners and with the full list of changes, and
\* once also when the all-changes key is itself among the changes
C28_OncePerListener ==
  [][(last'.op = "flush") =>
       \A i \in 1..Len(queue) : \A l \in FlushIds :
         /\ BoundKeys(l, queue[i].o) = {ALL_CHANGE_SYMBOL} =>
              /\ Cardinality(CallsFor(calls', l, queue[i].o)) = 1
              /\ ~InSeq(ALL_CHANGE_SYMBOL, queue[i].props) =>
                   \A c \in CallsFor(calls', l, queue[i].o) :
                     /\ calls'[c].p = queue[i].props
                     /\ \A d \in 1..Len(calls') :
                          (calls'[d].o = queue[i].o /\ calls'[d].e # l
                           /\ ALL_CHANGE_SYMBOL \notin BoundKeys(calls'[d].e, queue[i].o))
                            => d < c
         /\ (/\ ALL_CHANGE_SYMBOL \notin BoundKeys(l, queue[i].o)
             /\ BoundKeys(l, queue[i].o) \cap Range(queue[i].props) # {})
              => Cardinality(CallsFor(calls', l, queue[i].o)) = 1]_vars


\* ------------------------------------------------------------ C29
\* the position of the first trigger call of t on source o, on its key p
FirstSource(t, o) == CHOOSE i \in 1..Len(t) : t[i].o = o /\ \A j \in 1..(i - 1) : t[j].o # o
FirstProp(t, o, p) ==
  CHOOSE i \in 1..Len(t) :
    /\ t[i].o = o /\ InSeq(p, t[i].props)
    /\ \A j \in 1..(i - 1) : ~(t[j].o = o /\ InSeq(p, t[j].props))

\* C29: the invocations of a flush go source by source in the order in which
\* the sources were first triggered since the flush was scheduled; for one
\* source the per-property invocations follow the order in which its
\* properties were first triggered, and a list handed to a listener names
\* the properties in that order
C29_FirstTriggeredOrder ==
  [][(last'.op = "flush") =>
       /\ \A c \in 1..Len(calls') : \A d \in 1..Len(calls') :
            c < d =>
              /\ FirstSource(trigs, calls'[c].o) <= FirstSource(trigs, calls'[d].o)
              /\ (calls'[c].o = calls'[d].o /\ Len(calls'[c].p) = 1 /\ Len(calls'[d].p) = 1
                  /\ ALL_CHANGE_SYMBOL \notin BoundKeys(calls'[d].e, calls'[d].o))
                   => FirstProp(trigs, calls'[c].o, calls'[c].p[1])
                        <= FirstProp(trigs, calls'[d].o, calls'[d].p[1])
       /\ \A c \in 1..Len(calls') : \A a \in 1..Len(calls'[c].p) : \A b \in 1..Len(calls'[c].p) :
            a < b => FirstProp(trigs, calls'[c].o, calls'[c].p[a])
                       < FirstProp(trigs, calls'[c].o, calls'[c].p[b])]_vars

\* a flush of two sources, the one registered later triggered first
C29_Witness ==
  /\ last.op = "flush" /\ Len(queue) = 2 /\ queue[1].o = "o2" /\ queue[2].o = "o1"
  /\ \E c \in 1..Len(calls) : \E d \in 1..Len(calls) :
       c < d /\ calls[c].e = "q2" /\ calls[d].e = "q1"


\* ------------------------------------------------------------ C30
\* C30: a flush does not invoke a batched listener that destroy(), its own or
\* that of the scope owning it, unbound from a change in the flush's queue
\* after the change was queued; destroy() leaves the queue and the scheduled
\* flush as they are, and the flush invokes every listener still bound to a
\* queued change
C30_DestroyedNotInvoked ==
  [][/\ (last'.op = "flush") =>
          /\ \A b \in cancelled : CallsFor(calls', b[1], b[2]) = {}
          /\ \A i \in 1..Len(queue) : \A j \in 1..Len(queue[i].props) : \A l \in FlushIds :
               InSeq(l, Lookup(bt, queue[i].o, queue[i].props[j]))
                 => Delivered(calls', l, queue[i].o, <<queue[i].props[j]>>)
     /\ (last'.op \in {"destroy", "destroyScope"}) =>
          /\ pending' = pending /\ queue' = queue /\ isHanding' = isHanding
          /\ \A l \in FlushIds : \A o \in Origins : \A k \in Keys :
               (InSeq(l, Lookup(bt, o, k)) /\ ~ls'[l].isDispose)
                 => InSeq(l, Lookup(bt', o, k))]_vars

\* q1, owned by the scope, and q2 were bound to o1.x when it was triggered;
\* the scope was destroyed, and the flush invoked q2 and not q1
C30_Witness ==
  /\ last.op = "flush" /\ <<"q1", "o1", "x", "destroyScope">> \in cancelled
  /\ ~ls["q2"].isDispose
  /\ Delivered(calls, "q2", "o1", <<"x">>) /\ CallsFor(calls, "q1", "o1") = {}


\* ------------------------------------------------------------ C31
\* table t has no empty property map and no empty listener set
NoEmpty(t) ==
  \A o \in DOMAIN t : DOMAIN t[o] # {} /\ \A k \in DOMAIN t[o] : t[o][k] # <<>>
\* the entries of table t
EntriesOf(t) == UNION {UNION {Range(t[o][k]) : k \in DOMAIN t[o]} : o \in DOMAIN t}

\* C31: after every call neither registry table holds an empty listener set
\* or an empty property map, and no disposed listener is in a set of either
\* table
C31_NoEmptyCollections ==
  /\ NoEmpty(bt) /\ NoEmpty(nb)
  /\ \A e \in (EntriesOf(bt) \cup EntriesOf(nb)) \cap DOMAIN ls : ~ls[e].isDispose

\* both listeners registered on o1 were destroyed, the callback was removed:
\* the tables have no entry left
C31_Witness ==
  /\ last.op = "destroy" /\ ~last.was
  /\ ls["l1"].isDispose /\ ls["l2"].isDispose /\ ls["am"].isDispose
  /\ bt = EmptyMap /\ nb = EmptyMap


\* ------------------------------------------------------------ C32
\* when a constructor has ended, the current scope is the scope that was
\* current before it began; a disposable made in a body is a member of the
\* innermost scope under construction and of no other scope
RestoresAndAddsInnermost ==
  /\ (last'.op \in {"endScope", "throwScope"}) =>
       currentScope' = stack[Len(stack') + 1].oldScope
  /\ (last'.op = "newEffect") =>
       \A s \in ScopeIds :
         InSeq(last'.id, fx'[s].effects) => (stack # <<>> /\ s = stack[Len(stack)].this)

\* C32: after a Scope has been constructed, with its body returned or thrown,
\* the current scope is the one that was current before the construction, at
\* every nesting depth, and a disposable created inside a body is added to
\* the innermost scope under construction only
C32_CurrentScopeRestored == [][RestoresAndAddsInnermost]_vars


\* ------------------------------------------------------------ C33
\* the hooks, builds and patches of update() on w among the events hk
UpdateEvents(hk, w) ==
  {i \in 1..Len(hk) : hk[i].w = w /\ hk[i].h \in {"beforeUpdate", "build", "patch", "updated"}}
\* the tasks of renderer w in the timers t
TasksOf(t, w) == SelectSeq(t, LAMBDA z : z.w = w)
\* a task that clears the pending-update flag of w waits in the timers t
ClearWaits(t, w) == \E i \in 1..Len(t) : t[i] = [k |-> "clear", w |-> w]

\* C33: while the pending-update flag of a renderer is set, update() on it,
\* called directly or by the flush of a later microtask, builds nothing,
\* patches nothing, fires no hook and leaves the renderer as it is; an
\* update() called from inside a running update does the same, so that one
\* call builds and patches once; the flag is set exactly while a task that
\* clears it waits
C33_PendingBlocksUpdates ==
  [][\A w \in Components :
       /\ (rd[w].pendingUpdate /\ last'.op \in {"update", "updateAgain", "flush"}
           /\ (last'.op = "flush" \/ last'.id = w)) =>
            /\ UpdateEvents(hooks', w) = {}
            /\ rd'[w] = rd[w] /\ TasksOf(timers', w) = TasksOf(timers, w)
       /\ (last'.op = "updateAgain" /\ last'.id = w) =>
            /\ Builds(w)' <= 1 /\ Patches(w)' <= 1
            /\ Cardinality(UpdateEvents(hooks', w)) <= 4
       /\ rd'[w].pendingUpdate <=> ClearWaits(timers', w)]_vars

\* an update asked from inside a running update of the activated root: one
\* build, one patch, the flag set
C33_Witness ==
  /\ last.op = "updateAgain" /\ last.exc = "none" /\ last.arg = "activated"
  /\ Builds("w1") = 1 /\ Patches("w1") = 1 /\ rd["w1"].pendingUpdate


\* ------------------------------------------------------------ C34
\* the component instances below w: those in its child tree and below them
RECURSIVE AllBelow(_)
AllBelow(w) ==
  InstancesIn(rd[w].child) \cup UNION {AllBelow(v) : v \in InstancesIn(rd[w].child)}
\* the positions of the events of component w in the log hk
EventsOf(hk, w) == {i \in 1..Len(hk) : hk[i].w = w}
MountedEvents(w) ==
  <<[w |-> w, h |-> "state", a |-> "notMounted", b |-> "activated"],
    [w |-> w, h |-> "mounted", a |-> "", b |-> ""],
    [w |-> w, h |-> "activated", a |-> "", b |-> ""]>>

\* C34: mount() on a renderer in state notMounted mounts the component
\* instances below it first, each one that was notMounted becoming activated
\* with its own 'mounted' and 'activated' fired once and every other one left
\* as it was; then it sets its state to activated and fires 'mounted' and
\* after it 'activated', once each; mount() in another state fires no hook
\* and changes nothing
C34_MountOrder ==
  [][\A w \in WidgetIds :
       (last'.op = "mount" /\ last'.id = w) =>
         IF last'.arg = "notMounted"
         THEN /\ Len(hooks') >= 3
              /\ SubSeq(hooks', Len(hooks') - 2, Len(hooks')) = MountedEvents(w)
              /\ EventsOf(hooks', w) = (Len(hooks') - 2)..Len(hooks')
              /\ rd'[w].state = "activated"
              /\ \A d \in AllBelow(w) :
                   IF rd[d].state = "notMounted"
                   THEN /\ rd'[d].state = "activated"
                        /\ \E i \in 1..(Len(hooks') - 5) :
                             /\ SubSeq(hooks', i, i + 2) = MountedEvents(d)
                             /\ EventsOf(hooks', d) = i..(i + 2)
                   ELSE rd'[d] = rd[d] /\ EventsOf(hooks', d) = {}
              /\ \A v \in WidgetIds \ (AllBelow(w) \cup {w}) : rd'[v] = rd[v]
         ELSE hooks' = <<>> /\ rd' = rd /\ dom' = dom /\ fx' = fx]_vars

\* mount() on the root mounted both nested components before the root
C34_Witness ==
  /\ last.op = "mount" /\ last.id = "w1" /\ last.arg = "notMounted"
  /\ hooks = MountedEvents("w3") \o MountedEvents("w2") \o MountedEvents("w1")


\* ------------------------------------------------------------ C35
\* the one position of hook h of component w in the log hk (0 = not once)
Once(hk, w, h) ==
  LET at == {i \in 1..Len(hk) : hk[i].w = w /\ hk[i].h = h}
  IN IF Cardinality(at) = 1 THEN CHOOSE i \in at : TRUE ELSE 0
\* the scope of component v is destroyed and the listener of its build is
\* disposed and bound to nothing
TornDown(v, f, l, t) ==
  /\ f[ScopeOf[v]].isDeprecated /\ ~f[ScopeOf[v]].hasSet
  /\ l[MainOf[v]].made => l[MainOf[v]].isDispose /\ MainOf[v] \notin EntriesOf(t)

\* C35: unmount() on a renderer that is not unloaded leaves it unloaded with
\* its scope destroyed and the listener of its build disposed, and the same
\* for every component instance below it; 'before unmount', the unmount of
\* the components below, the destruction of the scope and 'unmounted' come in
\* this order, 'unmounted' once and last; an unloaded component is not
\* updated by writes or flushes
C35_UnmountTearsDown ==
  [][\A w \in WidgetIds :
       /\ (last'.op = "unmount" /\ last'.id = w /\ last'.arg # "unloaded") =>
            LET bu == Once(hooks', w, "beforeUnmount")
                sd == Once(hooks', w, "scopeDestroyed")
                um == Once(hooks', w, "unmounted")
            IN /\ 0 < bu /\ bu < sd /\ sd < um /\ um = Len(hooks')
               /\ rd'[w].state = "unloaded" /\ TornDown(w, fx', ls', bt')
               /\ \A d \in AllBelow(w) :
                    /\ rd'[d].state = "unloaded" /\ TornDown(d, fx', ls', bt')
                    /\ \A i \in EventsOf(hooks', d) : bu < i /\ i < sd
                    /\ rd[d].state # "unloaded" =>
                         Once(hooks', d, "unmounted") > Once(hooks', d, "scopeDestroyed")
       /\ (rd[w].state = "unloaded" /\ last'.op \in {"set", "flush", "timer"}) =>
            /\ EventsOf(hooks', w) = {}
            /\ rd'[w].state = rd[w].state /\ rd'[w].child = rd[w].child]_vars

\* the mounted root was unmounted with both components below it, and a write
\* and its flush after that invoked no listener and updated nothing
C35_Witness ==
  /\ last.op = "flush" /\ hooks = <<>> /\ calls = <<>>
  /\ \A w \in WidgetIds :
       rd[w].state = "unloaded" /\ rd[w].child.el # "" /\ TornDown(w, fx, ls, bt)


\* ------------------------------------------------------------ C36
\* a call that did not return is a register call with a disposed Listener
HangsOnlyOnDisposed == hung => (last.op = "register" /\ last.was)

\* C36: every call returns: no call waits for the lock of a source while the
\* call itself holds it, whatever the state of the Listener given to register
C36_CallsReturn == ~hung /\ weakMapLock = {}


\* ------------------------------------------------------------ C37
\* no macrotask of deactivate() waits for component w
NoPauseTask(t, w) == \A i \in 1..Len(t) : ~(t[i].k = "pause" /\ t[i].w = w)

\* a live component with no deferred task pending has its scope paused
\* exactly when it is deactivated
PausedIffDeactivated ==
  \A w \in WidgetIds :
    (rd[w].made /\ rd[w].state # "unloaded" /\ NoPauseTask(timers, w)) =>
       (fx[ScopeOf[w]].pause <=> rd[w].state = "deactivate")

\* no step logs a lifecycle hook of a component that was unloaded before it
SilentAfterUnmounted ==
  [][\A w \in WidgetIds : rd[w].state = "unloaded" => EventsOf(hooks', w) = {}]_vars

\* C37: under every interleaving of deactivate(), activate(), unmount() and
\* the deferred tasks, a component with no deferred task pending has a paused
\* scope iff its state is deactivate, and no hook fires after 'unmounted'
C37_ScopeFollowsState ==
  [][\A w \in WidgetIds :
       /\ (rd'[w].made /\ rd'[w].state # "unloaded" /\ NoPauseTask(timers', w)) =>
            (fx'[ScopeOf[w]].pause <=> rd'[w].state = "deactivate")
       /\ rd[w].state = "unloaded" => EventsOf(hooks', w) = {}]_vars


\* ------------------------------------------------------------ C38
\* the retained tree of an activated component shows another value than the
\* one its build() reads now (a value build() accepts)
Stale(w) ==
  /\ rd[w].state = "activated"
  /\ ReadValue(Cur, w) # "NaN"
  /\ rd[w].child.v # ReadValue(Cur, w)
\* no microtask and no macrotask waits
Quiescent == pending = 0 /\ timers = <<>>

\* C38: a write to the property an activated component's build() reads is
\* followed by a build() that sees it, also when the change reaches update()
\* while the pending flag is set: once every task that waited has run (after
\* which nothing can build any more), the retained tree shows the current
\* value
C38_ChangeIsRendered == Quiescent => ~Stale("w1")


\* ------------------------------------------------------------ C39
\* the listener watchDepend returned for k is live: its callback ran fewer
\* times than its limit and nobody destroyed it
LiveHandle(k) == Made(MainOf[k]) /\ ~ls[MainOf[k]].isDispose

\* C39: a listener returned for a call with limit L > 0 stays bound and
\* notified until its callback has run L times: once the microtasks have run,
\* a live handle has a live auxiliary listener bound to every property read,
\* also when several of them changed in one turn
C39_AuxiliaryOutlivesHandle ==
  \A k \in LimitedFns :
    (pending = 0 /\ LiveHandle(k)) =>
       /\ fired[MainOf[k]] < WatchLimit[k]
       /\ ~ls[SubOf[k]].isDispose
       /\ \A i \in 1..Len(Reads[k]) : \A j \in 1..Len(Reads[k][i].props) :
            BoundTo(SubOf[k], Reads[k][i].o, Reads[k][i].props[j])


\* ------------------------------------------------------------ C40
\* the properties of o1 the latest build() of w read: the description it
\* returned shows the value of o1.x it read
LatestReads(w) == IF rd[w].alt /\ rd[w].child.v = "v2" THEN {"x", "y"} ELSE {"x"}

\* C40: after any number of updates the listener of a component is bound to
\* every (source, property) pair its latest build() read, so that a change to
\* any of them reaches update()
C40_BoundToLatestReads ==
  (rd["w1"].made /\ rd["w1"].state = "activated" /\ ~ls[MainOf["w1"]].isDispose) =>
     \A prop \in LatestReads("w1") : BoundTo(SubOf["w1"], "o1", prop)

====
